---------------------------- MODULE Spec2Model ----------------------------
(***************************************************************************)
(* MiniRDBMS: the table/index engine (server/table.ts), the dispatcher     *)
(* with its join (server/database.ts), the persistence layer               *)
(* (server/storage.ts) and the statement classifier (server/parser.ts).    *)
(*                                                                         *)
(* A JavaScript value is a record [k, n, s]:                               *)
(*   k = "number"   n the integral part, s = "" for an integer,            *)
(*                  s = ".5" for n + 1/2, s = "Infinity", s = "NaN"        *)
(*   k = "string"   s the text                                             *)
(*   k = "boolean"  n = 1 for true, n = 0 for false                        *)
(*   k = "null", k = "undefined"                                           *)
(* Row identifiers and positions are 0-based as in the code; the TLA+      *)
(* sequence holding the rows is 1-based, so position p is rows[p + 1].     *)
(***************************************************************************)
EXTENDS Integers, Sequences, FiniteSets, TLC

(***************************************************************************)
(* Bounds of the model.                                                    *)
(***************************************************************************)
\* Spec tries an INSERT only while the table's next row identifier is below this.
MaxRowId == 2

\* Spec tries an UPDATE only while every index bucket is shorter than this.
MaxBucket == 2

\* SpecDelete and SpecRoundTrip try an INSERT only while the table's next row
\* identifier is below this.
MaxDeepRowId == 4

\* SpecJoin tries an INSERT only while the table holds fewer rows than this.
MaxJoinRows == 2

\* SpecCallers lets execute() be called at most this many times.
MaxCalls == 4

(***************************************************************************)
(* JavaScript values.                                                      *)
(***************************************************************************)
Num(i) == [k |-> "number", n |-> i, s |-> ""]
Half(i) == [k |-> "number", n |-> i, s |-> ".5"]
Infinity == [k |-> "number", n |-> 0, s |-> "Infinity"]
NaN == [k |-> "number", n |-> 0, s |-> "NaN"]
Str(t) == [k |-> "string", n |-> 0, s |-> t]
Bool(b) == [k |-> "boolean", n |-> IF b THEN 1 ELSE 0, s |-> ""]
Null == [k |-> "null", n |-> 0, s |-> ""]
Undefined == [k |-> "undefined", n |-> 0, s |-> ""]

\* value === null || value === undefined
IsNullish(v) == v.k \in {"null", "undefined"}

\* Number.isInteger(value)
IsInteger(v) == v.k = "number" /\ v.s = ""

\* ToNumber on the strings the model uses: the empty string is 0, a complete
\* numeric literal is its number, any other text is NaN.
StringToNumber(t) ==
    CASE t = "" -> Num(0)
      [] t = "0" -> Num(0)
      [] t = "1" -> Num(1)
      [] t = "2" -> Num(2)
      [] t = "3" -> Num(3)
      [] OTHER -> NaN

\* ToNumber: null is 0, undefined is NaN, true is 1, false is 0.
ToNumber(v) ==
    CASE v.k = "number" -> v
      [] v.k = "string" -> StringToNumber(v.s)
      [] v.k = "boolean" -> Num(v.n)
      [] v.k = "null" -> Num(0)
      [] OTHER -> NaN

\* a === b (NaN differs from itself).
StrictEquals(a, b) == a = b /\ a # NaN

\* Numeric equality of two numbers.
NumberEquals(a, b) == a = b /\ a # NaN

\* a == b, the loose equality of evaluateWhere: same type compares strictly,
\* null and undefined equal each other and nothing else, a boolean is first
\* converted to a number, and a number meets a string through ToNumber.
LooseEquals(a, b) ==
    CASE a.k = b.k -> StrictEquals(a, b)
      [] IsNullish(a) \/ IsNullish(b) -> IsNullish(a) /\ IsNullish(b)
      [] OTHER -> NumberEquals(ToNumber(a), ToNumber(b))

\* The position of a number on the number line, in halves; Infinity is
\* above every number of the model.
NumberRank(v) == IF v.s = "Infinity" THEN 1000 ELSE 2 * v.n + (IF v.s = ".5" THEN 1 ELSE 0)

\* The strings of the model in code-unit (lexicographic) order.
StringOrder == <<"", "0", "1", "2", "3", "x", "y">>

StringRank(t) == CHOOSE i \in 1..Len(StringOrder) : StringOrder[i] = t

\* a < b, the abstract relational comparison: two strings compare by code
\* units, anything else by ToNumber, and a comparison with NaN is false.
LessThan(a, b) ==
    IF a.k = "string" /\ b.k = "string"
    THEN StringRank(a.s) < StringRank(b.s)
    ELSE LET x == ToNumber(a)
             y == ToNumber(b)
         IN  x # NaN /\ y # NaN /\ NumberRank(x) < NumberRank(y)

\* a <= b is "not (b < a)" unless either side is NaN.
LessOrEqual(a, b) ==
    IF a.k = "string" /\ b.k = "string"
    THEN StringRank(a.s) <= StringRank(b.s)
    ELSE LET x == ToNumber(a)
             y == ToNumber(b)
         IN  x # NaN /\ y # NaN /\ NumberRank(x) <= NumberRank(y)

\* JSON.parse(JSON.stringify(v)) of a row value: a non-finite number is
\* written as null.
JsonValue(v) == IF v.k = "number" /\ v.s \in {"Infinity", "NaN"} THEN Null ELSE v

(***************************************************************************)
(* Rows, schemas and index maps.                                           *)
(***************************************************************************)
\* row[name]: a key the row does not have reads as undefined.
Get(row, name) == IF name \in DOMAIN row THEN row[name] ELSE Undefined

\* ColumnDefinition; an absent flag is modelled as FALSE.
Column(name, type, primaryKey, unique, notNull) ==
    [name |-> name, type |-> type, primaryKey |-> primaryKey, unique |-> unique,
     notNull |-> notNull]

ColumnNames(schema) == {schema.columns[i].name : i \in 1..Len(schema.columns)}

\* index.map.get(value) || []
MapGet(map, value) == IF value \in DOMAIN map THEN map[value] ELSE <<>>

\* if (!index.map.has(value)) index.map.set(value, []); index.map.get(value).push(rowId)
\* guarded by value !== undefined && value !== null.
MapPush(map, value, rowId) ==
    IF IsNullish(value) THEN map
    ELSE IF value \in DOMAIN map THEN [map EXCEPT ![value] = Append(@, rowId)]
    ELSE map @@ (value :> <<rowId>>)

\* rowIds.indexOf(rowId): the first place of rowId in the bucket, 0 for none.
IndexOf(rowIds, rowId) ==
    IF \E j \in 1..Len(rowIds) : rowIds[j] = rowId
    THEN CHOOSE j \in 1..Len(rowIds) :
             rowIds[j] = rowId /\ \A h \in 1..(j - 1) : rowIds[h] # rowId
    ELSE 0

\* rowIds.splice(idx, 1)
RemoveAt(seq, j) == SubSeq(seq, 1, j - 1) \o SubSeq(seq, j + 1, Len(seq))

\* The bucket pruning shared by delete and updateIndexes: when the value is
\* not nullish and has a bucket, the first occurrence of rowId is spliced out
\* of it, and the bucket is dropped when it is then empty.
MapRemove(map, value, rowId) ==
    IF IsNullish(value) \/ value \notin DOMAIN map THEN map
    ELSE LET rowIds == map[value]
             idx == IndexOf(rowIds, rowId)
             left == IF idx > 0 THEN RemoveAt(rowIds, idx) ELSE rowIds
         IN  IF left = <<>>
             THEN [v \in DOMAIN map \ {value} |-> map[v]]
             ELSE [map EXCEPT ![value] = left]

\* createIndex's loop over this.rows: rows[0..n-1] entered in position order.
RECURSIVE BuildIndexMap(_, _, _)
BuildIndexMap(rows, columnName, n) ==
    IF n = 0 THEN <<>>
    ELSE MapPush(BuildIndexMap(rows, columnName, n - 1), Get(rows[n], columnName), n - 1)

\* The columns that get an index in the constructor: every unique key, and
\* the primary key when the schema names one.
IndexedColumns(schema) ==
    {schema.uniqueKeys[i] : i \in 1..Len(schema.uniqueKeys)}
        \cup (IF schema.primaryKey # "" THEN {schema.primaryKey} ELSE {})

\* new Table(schema, storage, existingRows): nextRowId is the row count and
\* every index is built from the rows.
NewTable(schema, existingRows) ==
    [schema |-> schema,
     rows |-> existingRows,
     indexes |-> [c \in IndexedColumns(schema) |->
                     BuildIndexMap(existingRows, c, Len(existingRows))],
     nextRowId |-> Len(existingRows)]

\* validateType(value, type)
ValidateType(value, type) ==
    IF IsNullish(value) THEN TRUE
    ELSE CASE type = "INT" -> IsInteger(value)
           [] type = "FLOAT" -> value.k = "number"
           [] type = "TEXT" -> value.k = "string"
           [] type = "BOOLEAN" -> value.k = "boolean"
           [] OTHER -> FALSE

\* rowIds.map(id => this.rows[id]).filter(r => r !== undefined): the
\* identifiers read as positions of the row sequence, those that address no
\* row dropped.
RECURSIVE RowsAt(_, _)
RowsAt(rows, rowIds) ==
    IF rowIds = <<>> THEN <<>>
    ELSE (IF Head(rowIds) < Len(rows) THEN <<rows[Head(rowIds) + 1]>> ELSE <<>>)
             \o RowsAt(rows, Tail(rowIds))

\* findByIndex(columnName, value)
FindByIndex(table, columnName, value) ==
    IF columnName \notin DOMAIN table.indexes THEN <<>>
    ELSE RowsAt(table.rows, MapGet(table.indexes[columnName], value))

\* evaluateWhere(row, where)
EvaluateWhere(row, where) ==
    LET value == Get(row, where.column)
        compareValue == where.value
    IN  CASE where.operator = "=" -> LooseEquals(value, compareValue)
          [] where.operator = "!=" -> ~LooseEquals(value, compareValue)
          [] where.operator = ">" -> LessThan(compareValue, value)
          [] where.operator = "<" -> LessThan(value, compareValue)
          [] where.operator = ">=" -> LessOrEqual(compareValue, value)
          [] where.operator = "<=" -> LessOrEqual(value, compareValue)
          [] OTHER -> FALSE

\* An absent WHERE clause.
NoWhere == [column |-> "", operator |-> "", value |-> Undefined]

\* !whereClause || this.evaluateWhere(row, whereClause)
Matches(row, where) == where = NoWhere \/ EvaluateWhere(row, where)

(***************************************************************************)
(* Table.insert                                                            *)
(***************************************************************************)
\* The outcome of a table operation: the table as the call leaves it, whether
\* persist() ran, and the returned record.
Outcome(table, persisted, success, error, rowsAffected) ==
    [table |-> table, persisted |-> persisted, success |-> success, error |-> error,
     rowsAffected |-> rowsAffected]

\* The per-column check of insert's loop: "" when column i accepts the value.
ColumnError(col, value) ==
    IF col.notNull /\ IsNullish(value) THEN "cannot be null"
    ELSE IF ~ValidateType(value, col.type) THEN "Invalid type"
    ELSE ""

\* The first column, in schema order, whose check fails; 0 when none does.
FirstBadColumn(columns, values) ==
    IF \E i \in 1..Len(columns) : ColumnError(columns[i], values[i]) # ""
    THEN CHOOSE i \in 1..Len(columns) :
             /\ ColumnError(columns[i], values[i]) # ""
             /\ \A h \in 1..(i - 1) : ColumnError(columns[h], values[h]) = ""
    ELSE 0

\* row[col.name] = value for every column, in schema order.
RowOf(columns, values) ==
    [name \in {columns[i].name : i \in 1..Len(columns)} |->
        values[CHOOSE i \in 1..Len(columns) :
                   /\ columns[i].name = name
                   /\ \A h \in (i + 1)..Len(columns) : columns[h].name # name]]

\* The first unique key, in uniqueKeys order, whose bucket addresses a row;
\* 0 when none does.
FirstDuplicateUnique(table, row) ==
    LET keys == table.schema.uniqueKeys
        Dup(i) == FindByIndex(table, keys[i], Get(row, keys[i])) # <<>>
    IN  IF \E i \in 1..Len(keys) : Dup(i)
        THEN CHOOSE i \in 1..Len(keys) : Dup(i) /\ \A h \in 1..(i - 1) : ~Dup(h)
        ELSE 0

\* The commit of insert: the row is pushed, nextRowId is taken and advanced,
\* and every index gets the identifier in the bucket of the row's value.
InsertCommit(table, row) ==
    [table EXCEPT
        !.rows = Append(@, row),
        !.nextRowId = @ + 1,
        !.indexes = [c \in DOMAIN @ |-> MapPush(@[c], Get(row, c), table.nextRowId)]]

\* A variant of the duplicate checks that tests the unique keys before the
\* primary key.
InsertRowCheckedUniqueFirst(table, row) ==
    IF FirstDuplicateUnique(table, row) # 0
    THEN Outcome(table, FALSE, FALSE, "Duplicate unique key", 0)
    ELSE IF /\ table.schema.primaryKey # ""
            /\ FindByIndex(table, table.schema.primaryKey,
                           Get(row, table.schema.primaryKey)) # <<>>
    THEN Outcome(table, FALSE, FALSE, "Duplicate primary key", 0)
    ELSE Outcome(InsertCommit(table, row), TRUE, TRUE, "", 1)

\* The duplicate checks of insert, primary key first, then the commit.
InsertRowChecked(table, row) ==
    IF /\ table.schema.primaryKey # ""
       /\ FindByIndex(table, table.schema.primaryKey,
                      Get(row, table.schema.primaryKey)) # <<>>
    THEN Outcome(table, FALSE, FALSE, "Duplicate primary key", 0)
    ELSE IF FirstDuplicateUnique(table, row) # 0
    THEN Outcome(table, FALSE, FALSE, "Duplicate unique key", 0)
    ELSE Outcome(InsertCommit(table, row), TRUE, TRUE, "", 1)

\* A variant of the per-column loop that takes the row identifier before the
\* checks, so that a refused row still advances nextRowId.
InsertColumnsCheckedIdFirst(table, values, bad) ==
    IF bad # 0
    THEN Outcome([table EXCEPT !.nextRowId = @ + 1], FALSE, FALSE,
                 ColumnError(table.schema.columns[bad], values[bad]), 0)
    ELSE InsertRowChecked(table, RowOf(table.schema.columns, values))

\* The per-column loop of insert: bad is the first failing column, 0 for none.
InsertColumnsChecked(table, values, bad) ==
    IF bad # 0
    THEN Outcome(table, FALSE, FALSE,
                 ColumnError(table.schema.columns[bad], values[bad]), 0)
    ELSE InsertRowChecked(table, RowOf(table.schema.columns, values))

\* insert(values)
Insert(table, values) ==
    IF Len(values) # Len(table.schema.columns)
    THEN Outcome(table, FALSE, FALSE, "Column count mismatch", 0)
    ELSE InsertColumnsChecked(table, values, FirstBadColumn(table.schema.columns, values))

(***************************************************************************)
(* Table.delete                                                            *)
(***************************************************************************)
\* The body of delete's forEach for position i: every index prunes i from
\* the bucket of the row's value, then the row is spliced out.
DeleteAt(table, i) ==
    LET row == table.rows[i + 1]
    IN  [table EXCEPT
            !.indexes = [c \in DOMAIN @ |-> MapRemove(@[c], Get(row, c), i)],
            !.rows = RemoveAt(@, i + 1)]

\* A variant of delete's loop that removes the collected positions lowest
\* first, so that a later position addresses a row that has shifted.
RECURSIVE DeleteEach(_, _)
DeleteEach(table, positions) ==
    IF positions = <<>> THEN table
    ELSE DeleteEach(IF Head(positions) < Len(table.rows)
                    THEN DeleteAt(table, Head(positions)) ELSE table,
                    Tail(positions))

DeleteFromAscending(table, where, n) ==
    DeleteEach(table, SelectSeq([i \in 1..n |-> i - 1],
                                LAMBDA p : Matches(table.rows[p + 1], where)))

\* rowsToDelete.reverse().forEach(...): the matching positions below n,
\* highest first.
RECURSIVE DeleteFrom(_, _, _)
DeleteFrom(table, where, n) ==
    IF n = 0 THEN table
    ELSE IF Matches(table.rows[n], where)
    THEN DeleteFrom(DeleteAt(table, n - 1), where, n - 1)
    ELSE DeleteFrom(table, where, n - 1)

\* The number of rows the WHERE clause matches.
MatchCount(rows, where) == Cardinality({i \in 1..Len(rows) : Matches(rows[i], where)})

\* delete(whereClause)
Delete(table, where) ==
    LET count == MatchCount(table.rows, where)
    IN  Outcome(DeleteFrom(table, where, Len(table.rows)), count > 0, TRUE, "", count)

(***************************************************************************)
(* Table.update                                                            *)
(***************************************************************************)
\* this.schema.columns.find(c => c.name === colName): 0 when there is none.
FindColumn(columns, colName) ==
    IF \E i \in 1..Len(columns) : columns[i].name = colName
    THEN CHOOSE i \in 1..Len(columns) :
             columns[i].name = colName /\ \A h \in 1..(i - 1) : columns[h].name # colName
    ELSE 0

\* A variant of the SET loop that assigns a value before it validates it, so
\* that a value of the wrong type stays in the row when the loop ends.
RECURSIVE ApplySetAssignFirst(_, _, _, _)
ApplySetAssignFirst(row, columns, setClause, j) ==
    IF j > Len(setClause) THEN [row |-> row, error |-> ""]
    ELSE LET colName == setClause[j].column
             value == setClause[j].value
             c == FindColumn(columns, colName)
             assigned == [n \in DOMAIN row \cup {colName} |->
                             IF n = colName THEN value ELSE row[n]]
         IN  IF c = 0 THEN [row |-> row, error |-> "does not exist"]
             ELSE IF ~ValidateType(value, columns[c].type)
             THEN [row |-> assigned, error |-> "Invalid type"]
             ELSE ApplySetAssignFirst(assigned, columns, setClause, j + 1)

\* The loop over Object.entries(setClause) for one row, from entry j on: an
\* unknown column or a value of the wrong type ends it with an error, the
\* assignments made before it staying in the row.
RECURSIVE ApplySet(_, _, _, _)
ApplySet(row, columns, setClause, j) ==
    IF j > Len(setClause) THEN [row |-> row, error |-> ""]
    ELSE LET colName == setClause[j].column
             value == setClause[j].value
             c == FindColumn(columns, colName)
         IN  IF c = 0 THEN [row |-> row, error |-> "does not exist"]
             ELSE IF ~ValidateType(value, columns[c].type)
             THEN [row |-> row, error |-> "Invalid type"]
             ELSE ApplySet([n \in DOMAIN row \cup {colName} |->
                               IF n = colName THEN value ELSE row[n]],
                           columns, setClause, j + 1)

\* A variant of updateIndexes that leaves the identifier in the old bucket.
UpdateIndexesKeepingOld(indexes, rowId, oldRow, newRow) ==
    [c \in DOMAIN indexes |->
        IF Get(oldRow, c) = Get(newRow, c) /\ Get(oldRow, c) # NaN THEN indexes[c]
        ELSE MapPush(indexes[c], Get(newRow, c), rowId)]

\* updateIndexes(rowId, oldRow, newRow)
UpdateIndexes(indexes, rowId, oldRow, newRow) ==
    [c \in DOMAIN indexes |->
        IF Get(oldRow, c) = Get(newRow, c) /\ Get(oldRow, c) # NaN THEN indexes[c]
        ELSE MapPush(MapRemove(indexes[c], Get(oldRow, c), rowId), Get(newRow, c), rowId)]

\* update's loop from position i on, rowsAffected rows done so far, and its
\* body for a matching row (set is what the SET loop made of the row).  The
\* early return leaves the row as assigned so far, without the index update
\* of that row and without persist().
RECURSIVE UpdateFrom(_, _, _, _, _), UpdateRow(_, _, _, _, _, _)

\* A variant of the body that calls persist() before the early return.
UpdateRowPersisting(table, setClause, where, i, rowsAffected, set) ==
    IF set.error # ""
    THEN Outcome([table EXCEPT !.rows[i + 1] = set.row], TRUE, FALSE, set.error, 0)
    ELSE UpdateFrom([table EXCEPT
                        !.rows[i + 1] = set.row,
                        !.indexes = UpdateIndexes(@, i, table.rows[i + 1], set.row)],
                    setClause, where, i + 1, rowsAffected + 1)

UpdateRow(table, setClause, where, i, rowsAffected, set) ==
    IF set.error # ""
    THEN Outcome([table EXCEPT !.rows[i + 1] = set.row], FALSE, FALSE, set.error, 0)
    ELSE UpdateFrom([table EXCEPT
                        !.rows[i + 1] = set.row,
                        !.indexes = UpdateIndexes(@, i, table.rows[i + 1], set.row)],
                    setClause, where, i + 1, rowsAffected + 1)

UpdateFrom(table, setClause, where, i, rowsAffected) ==
    IF i >= Len(table.rows)
    THEN Outcome(table, rowsAffected > 0, TRUE, "", rowsAffected)
    ELSE IF ~Matches(table.rows[i + 1], where)
    THEN UpdateFrom(table, setClause, where, i + 1, rowsAffected)
    ELSE UpdateRow(table, setClause, where, i, rowsAffected,
                   ApplySet(table.rows[i + 1], table.schema.columns, setClause, 1))

\* A variant of update whose scan does not test the WHERE clause.
UpdateIgnoringWhere(table, setClause, where) == UpdateFrom(table, setClause, NoWhere, 0, 0)

\* update(setClause, whereClause)
Update(table, setClause, where) == UpdateFrom(table, setClause, where, 0, 0)

(***************************************************************************)
(* Table.select                                                            *)
(***************************************************************************)
\* The projection of one row: the requested names the row has.
Project(row, columns) == [n \in DOMAIN row \cap columns |-> row[n]]

\* The projection step shared by select and executeJoin: the rows as they
\* are for '*', else each row reduced to the requested names.
Projected(rows, columns) ==
    IF "*" \in columns THEN rows
    ELSE [j \in 1..Len(rows) |-> Project(rows[j], columns)]

\* The branch select takes: the bucket lookup.
UsesIndex(table, where) ==
    where # NoWhere /\ where.operator = "=" /\ where.column \in DOMAIN table.indexes

\* this.rows.filter(row => !whereClause || evaluateWhere(row, whereClause))
Scan(rows, where) == SelectSeq(rows, LAMBDA row : Matches(row, where))

\* The bucket select reads on the index branch.
Bucket(table, where) == MapGet(table.indexes[where.column], where.value)

\* A variant of select whose linear scan counts the rows that match instead
\* of the rows it visits.
SelectCountingMatches(table, columns, where) ==
    IF UsesIndex(table, where)
    THEN [rows |-> Projected(RowsAt(table.rows, Bucket(table, where)), columns),
          rowsScanned |-> Len(Bucket(table, where)),
          indexUsed |-> table.schema.name \o "_" \o where.column \o "_idx"]
    ELSE [rows |-> Projected(Scan(table.rows, where), columns),
          rowsScanned |-> Len(Scan(table.rows, where)),
          indexUsed |-> ""]

\* select(columns, whereClause); columns is the set of requested names.
Select(table, columns, where) ==
    IF UsesIndex(table, where)
    THEN [rows |-> Projected(RowsAt(table.rows, Bucket(table, where)), columns),
          rowsScanned |-> Len(Bucket(table, where)),
          indexUsed |-> table.schema.name \o "_" \o where.column \o "_idx"]
    ELSE [rows |-> Projected(Scan(table.rows, where), columns),
          rowsScanned |-> Len(table.rows),
          indexUsed |-> ""]

\* getAllRows()
GetAllRows(table) == table.rows

(***************************************************************************)
(* Storage: one table blob per table, one bucket-list blob per index.      *)
(***************************************************************************)
\* JSON.stringify of the row sequence: every value goes through JSON.
JsonRows(rows) == [j \in 1..Len(rows) |-> [n \in DOMAIN rows[j] |-> JsonValue(rows[j][n])]]

\* saveTable(tableName, schema, rows): the content of <tableName>.table.json.
SaveTable(files, tableName, schema, rows) ==
    [n \in DOMAIN files \cup {tableName} |->
        IF n = tableName THEN [schema |-> schema, rows |-> JsonRows(rows)] ELSE files[n]]

\* Array.from(indexMap.entries()) as JSON: the (value, rowIds) pairs.
JsonIndex(map) == {<<JsonValue(v), map[v]>> : v \in DOMAIN map}

\* The path of an index blob below the indexes directory, without its
\* extension: indexes/<tableName>_<columnName>.idx.json.
IndexPath(tableName, columnName) == tableName \o "_" \o columnName

\* saveIndex for every index of the table.  Two columns of one table never
\* share a path.
SaveIndexes(files, table) ==
    LET mine == {IndexPath(table.schema.name, c) : c \in DOMAIN table.indexes}
        column(f) == CHOOSE c \in DOMAIN table.indexes : IndexPath(table.schema.name, c) = f
    IN  [f \in DOMAIN files \cup mine |->
            IF f \in mine THEN JsonIndex(table.indexes[column(f)]) ELSE files[f]]

\* deleteTable(tableName): unlinks the table blob.
DeleteTable(files, tableName) == [n \in DOMAIN files \ {tableName} |-> files[n]]

\* listTables(): the names of the *.table.json files.
ListTables(files) == DOMAIN files

\* loadTable(tableName)
LoadTable(files, tableName) == files[tableName]

(***************************************************************************)
(* The engine state.                                                       *)
(***************************************************************************)
VARIABLES
    tables,       \* Database.tables: table name -> Table
    tableFiles,   \* the data directory: table name -> table blob
    indexFiles,   \* the indexes directory: index path -> index blob
    result,       \* the QueryResult of the last execute() call
    escaped,      \* whether the last execute() call raised to its caller
    calls         \* the execute() calls in progress and the calls made so far

vars == <<tables, tableFiles, indexFiles, result, escaped, calls>>

\* The engine as one value, for the operators below.
Db(t, tf, xf) == [tables |-> t, tableFiles |-> tf, indexFiles |-> xf]

\* QueryResult, with the statement type it answers.  An absent rowsAffected
\* or rowsScanned is -1, an absent error or indexUsed is "", absent rows <<>>.
Result(type, success, error, rowsAffected, rows, rowsScanned, indexUsed) ==
    [type |-> type, success |-> success, error |-> error, rowsAffected |-> rowsAffected,
     rows |-> rows, rowsScanned |-> rowsScanned, indexUsed |-> indexUsed]

Failure(type, error) == Result(type, FALSE, error, -1, <<>>, -1, "")

Success(type, rowsAffected) == Result(type, TRUE, "", rowsAffected, <<>>, -1, "")

\* What the try block of execute leaves: the engine, and either the result
\* a dispatcher method returned or the message of the error thrown.
Done(db, res) == [db |-> db, result |-> res, thrown |-> ""]

Thrown(db, message) == [db |-> db, result |-> Failure("", ""), thrown |-> message]

\* this.persist(): the table blob, then every index blob.
Persist(db, table) ==
    [db EXCEPT
        !.tableFiles = SaveTable(@, table.schema.name, table.schema, table.rows),
        !.indexFiles = SaveIndexes(@, table)]

\* A table operation's outcome put back into the engine: the Table object is
\* updated in place, and the files are written when persist() ran.
Store(db, tableName, out) ==
    LET kept == [db EXCEPT !.tables[tableName] = out.table]
    IN  IF out.persisted THEN Persist(kept, out.table) ELSE kept

(***************************************************************************)
(* Database: the dispatcher.                                               *)
(***************************************************************************)
\* query.columns.find(c => c.primaryKey)?.name, "" for undefined.
PrimaryKeyOf(columns) ==
    IF \E i \in 1..Len(columns) : columns[i].primaryKey
    THEN columns[CHOOSE i \in 1..Len(columns) :
                     columns[i].primaryKey /\ \A h \in 1..(i - 1) : ~columns[h].primaryKey].name
    ELSE ""

\* query.columns.filter(c => c.unique || c.primaryKey).map(c => c.name)
RECURSIVE UniqueKeysOf(_)
UniqueKeysOf(columns) ==
    IF columns = <<>> THEN <<>>
    ELSE (IF Head(columns).unique \/ Head(columns).primaryKey
          THEN <<Head(columns).name>> ELSE <<>>) \o UniqueKeysOf(Tail(columns))

SchemaOf(tableName, columns) ==
    [name |-> tableName, columns |-> columns, primaryKey |-> PrimaryKeyOf(columns),
     uniqueKeys |-> UniqueKeysOf(columns)]

\* A variant of executeCreateTable without the test for a registered name:
\* the new Table replaces the registered one.
ExecuteCreateTableAgain(db, query) ==
    LET table == NewTable(SchemaOf(query.tableName, query.columns), <<>>)
    IN  Done([db EXCEPT
                 !.tables = [n \in DOMAIN @ \cup {query.tableName} |->
                                IF n = query.tableName THEN table ELSE @[n]],
                 !.indexFiles = SaveIndexes(@, table)],
             Success("CREATE_TABLE", -1))

\* executeCreateTable: the Table constructor saves each (empty) index blob;
\* the table blob is not written here.
ExecuteCreateTable(db, query) ==
    IF query.tableName \in DOMAIN db.tables
    THEN Done(db, Failure("CREATE_TABLE", "already exists"))
    ELSE LET table == NewTable(SchemaOf(query.tableName, query.columns), <<>>)
         IN  Done([db EXCEPT
                      !.tables = [n \in DOMAIN @ \cup {query.tableName} |->
                                     IF n = query.tableName THEN table ELSE @[n]],
                      !.indexFiles = SaveIndexes(@, table)],
                  Success("CREATE_TABLE", -1))

\* What executeInsert and executeUpdate do with the table's answer: the
\* table has changed in place (and persisted itself), and the answer becomes
\* a success or a failure result.
Answered(db, tableName, type, out) ==
    Done(Store(db, tableName, out),
         IF out.success THEN Success(type, out.rowsAffected) ELSE Failure(type, out.error))

\* executeInsert
ExecuteInsert(db, query) ==
    IF query.tableName \notin DOMAIN db.tables
    THEN Done(db, Failure("INSERT", "does not exist"))
    ELSE Answered(db, query.tableName, "INSERT",
                  Insert(db.tables[query.tableName], query.values))

\* executeUpdate
ExecuteUpdate(db, query) ==
    IF query.tableName \notin DOMAIN db.tables
    THEN Done(db, Failure("UPDATE", "does not exist"))
    ELSE Answered(db, query.tableName, "UPDATE",
                  Update(db.tables[query.tableName], query.setClause, query.whereClause))

\* What executeDelete does with the table's answer: always a success.
Deleted(db, tableName, out) ==
    Done(Store(db, tableName, out), Success("DELETE", out.rowsAffected))

\* executeDelete
ExecuteDelete(db, query) ==
    IF query.tableName \notin DOMAIN db.tables
    THEN Done(db, Failure("DELETE", "does not exist"))
    ELSE Deleted(db, query.tableName,
                 Delete(db.tables[query.tableName], query.whereClause))

\* A variant of executeDropTable that unlinks the table blob and keeps the
\* registry entry.
ExecuteDropTableKeepingEntry(db, query) ==
    IF query.tableName \notin DOMAIN db.tables
    THEN Done(db, Failure("DROP_TABLE", "does not exist"))
    ELSE Done([db EXCEPT !.tableFiles = DeleteTable(@, query.tableName)],
              Success("DROP_TABLE", -1))

\* executeDropTable: the registry entry and the table blob go; the index
\* blobs stay.
ExecuteDropTable(db, query) ==
    IF query.tableName \notin DOMAIN db.tables
    THEN Done(db, Failure("DROP_TABLE", "does not exist"))
    ELSE Done([db EXCEPT
                  !.tables = [n \in DOMAIN @ \ {query.tableName} |-> @[n]],
                  !.tableFiles = DeleteTable(@, query.tableName)],
              Success("DROP_TABLE", -1))

(***************************************************************************)
(* Database.executeSelect and executeJoin                                  *)
(***************************************************************************)
\* An absent JOIN clause.
NoJoin == [table |-> "", leftTable |-> "", leftColumn |-> "", rightTable |-> "",
           rightColumn |-> ""]

Qualified(tableName, key) == tableName \o "." \o key

\* The merged row of executeJoin: every left key under its qualified and its
\* bare name, then every right key under its qualified name (overwriting an
\* equal key) and under its bare name when the merged row has no such key yet.
Merge(leftName, leftRow, rightName, rightRow) ==
    LET leftQ == {Qualified(leftName, c) : c \in DOMAIN leftRow}
        rightQ == {Qualified(rightName, c) : c \in DOMAIN rightRow}
        Bare(key) == IF key \in DOMAIN leftRow THEN leftRow[key] ELSE rightRow[key]
    IN  [key \in leftQ \cup rightQ \cup DOMAIN leftRow \cup DOMAIN rightRow |->
            IF key \in rightQ
            THEN rightRow[CHOOSE c \in DOMAIN rightRow : Qualified(rightName, c) = key]
            ELSE IF key \in leftQ
            THEN leftRow[CHOOSE c \in DOMAIN leftRow : Qualified(leftName, c) = key]
            ELSE Bare(key)]

\* A variant of the join condition that compares with == instead of ===.
JoinMatchLoose(leftRow, rightRow, join) ==
    LooseEquals(Get(leftRow, join.leftColumn), Get(rightRow, join.rightColumn))

\* leftValue === rightValue on the designated columns.
JoinMatch(leftRow, rightRow, join) ==
    StrictEquals(Get(leftRow, join.leftColumn), Get(rightRow, join.rightColumn))

\* The nested forEach: the pairs <<i, j>> in left-major order.
CrossProduct(m, n) == [p \in 1..(m * n) |-> <<((p - 1) \div n) + 1, ((p - 1) % n) + 1>>]

\* The pairs the join retains, in the order they are visited.
JoinPairs(leftRows, rightRows, join) ==
    SelectSeq(CrossProduct(Len(leftRows), Len(rightRows)),
              LAMBDA p : JoinMatch(leftRows[p[1]], rightRows[p[2]], join))

\* joinedRows: one merged row per retained pair.
JoinedRows(leftName, leftRows, rightName, rightRows, pairs) ==
    [p \in 1..Len(pairs) |->
        Merge(leftName, leftRows[pairs[p][1]], rightName, rightRows[pairs[p][2]])]

\* The loops and the projection of executeJoin over the two row lists.
Join(leftName, leftRows, rightName, rightRows, join, selectColumns) ==
    Result("SELECT", TRUE, "", -1,
           Projected(JoinedRows(leftName, leftRows, rightName, rightRows,
                                JoinPairs(leftRows, rightRows, join)),
                     selectColumns),
           Len(leftRows) * Len(rightRows), "")

\* executeJoin
ExecuteJoin(db, query) ==
    IF query.joinClause.table \notin DOMAIN db.tables
    THEN Done(db, Failure("SELECT", "One or both tables in JOIN do not exist"))
    ELSE Done(db, Join(query.tableName, GetAllRows(db.tables[query.tableName]),
                       query.joinClause.table,
                       GetAllRows(db.tables[query.joinClause.table]),
                       query.joinClause, query.selectColumns))

\* The result executeSelect makes of the table's answer.
Selected(db, out) ==
    Done(db, Result("SELECT", TRUE, "", -1, out.rows, out.rowsScanned, out.indexUsed))

\* executeSelect
ExecuteSelect(db, query) ==
    IF query.tableName \notin DOMAIN db.tables
    THEN Done(db, Failure("SELECT", "does not exist"))
    ELSE IF query.joinClause # NoJoin THEN ExecuteJoin(db, query)
    ELSE Selected(db, Select(db.tables[query.tableName], query.selectColumns,
                             query.whereClause))

(***************************************************************************)
(* SQLParser.parse and Database.execute                                    *)
(***************************************************************************)
\* ParsedQuery; a field the statement kind does not carry is empty.
Query(type, tableName, columns, values, selectColumns, whereClause, joinClause, setClause) ==
    [type |-> type, tableName |-> tableName, columns |-> columns, values |-> values,
     selectColumns |-> selectColumns, whereClause |-> whereClause,
     joinClause |-> joinClause, setClause |-> setClause]

\* The leading keywords parse recognises, with the query type of each.
Keywords == {"CREATE TABLE", "INSERT INTO", "SELECT", "UPDATE", "DELETE FROM", "DROP TABLE"}

\* A statement text, by what parse reads of it: its leading keyword, whether
\* the regular expression of that statement kind matches, and the fields the
\* expression captures.
Sql(keyword, matches, query) == [keyword |-> keyword, matches |-> matches, query |-> query]

\* parse(sql): an unrecognised leading keyword and a text its statement's
\* pattern does not match are thrown as errors.
Parse(sql) ==
    IF sql.keyword \notin Keywords
    THEN [thrown |-> "Unsupported SQL statement", query |-> sql.query]
    ELSE IF ~sql.matches
    THEN [thrown |-> "Invalid syntax", query |-> sql.query]
    ELSE [thrown |-> "", query |-> sql.query]

\* The switch of execute.
Dispatch(db, query) ==
    CASE query.type = "CREATE_TABLE" -> ExecuteCreateTable(db, query)
      [] query.type = "INSERT" -> ExecuteInsert(db, query)
      [] query.type = "SELECT" -> ExecuteSelect(db, query)
      [] query.type = "UPDATE" -> ExecuteUpdate(db, query)
      [] query.type = "DELETE" -> ExecuteDelete(db, query)
      [] query.type = "DROP_TABLE" -> ExecuteDropTable(db, query)
      [] OTHER -> Done(db, Failure("", "Unknown query type"))

\* The try block of execute after parse has returned or thrown.
Parsed(db, parsed) ==
    IF parsed.thrown # "" THEN Thrown(db, parsed.thrown) ELSE Dispatch(db, parsed.query)

\* The try block of execute: parse, then dispatch.
Try(db, sql) == Parsed(db, Parse(sql))

\* A variant of execute without the catch block: a thrown error reaches the
\* caller.
CatchNothing(attempt) ==
    [db |-> attempt.db, result |-> attempt.result, escaped |-> attempt.thrown # ""]

\* The catch block of execute: an error thrown in the try block becomes a
\* failure result carrying its message; nothing is rethrown.
Catch(attempt) ==
    [db |-> attempt.db,
     result |-> IF attempt.thrown # "" THEN Failure("", attempt.thrown) ELSE attempt.result,
     escaped |-> FALSE]

\* execute(sql) on the engine as it stands: the engine it leaves, the
\* result it returns, and whether an error escaped to the caller.
Run(sql) == Catch(Try(Db(tables, tableFiles, indexFiles), sql))

\* The step to the engine and the result a call left.
Becomes(run) ==
    /\ tables' = run.db.tables
    /\ tableFiles' = run.db.tableFiles
    /\ indexFiles' = run.db.indexFiles
    /\ result' = run.result
    /\ escaped' = run.escaped
    /\ calls' = calls

\* One call of execute(sql).
Execute(sql) == Becomes(Run(sql))

\* The Table objects loadExistingTables builds, one per table blob.
LoadedTables(tf) ==
    [n \in ListTables(tf) |-> NewTable(LoadTable(tf, n).schema, LoadTable(tf, n).rows)]

\* The index blobs the constructors of the loaded tables save.  Were two
\* loaded tables to share an index path, the blob would be the one of the
\* table readdirSync lists last; restarts are taken over the files of table
\* t only, where every path has one writer.
RebuiltIndexFiles(xf, loaded) ==
    LET built == UNION {{<<n, c>> : c \in DOMAIN loaded[n].indexes} : n \in DOMAIN loaded}
        writer(f) == CHOOSE w \in built : IndexPath(w[1], w[2]) = f
    IN  [f \in DOMAIN xf \cup {IndexPath(w[1], w[2]) : w \in built} |->
            IF \E w \in built : IndexPath(w[1], w[2]) = f
            THEN JsonIndex(loaded[writer(f)[1]].indexes[writer(f)[2]])
            ELSE xf[f]]

\* A variant of loadExistingTables that takes the buckets of an index from
\* its persisted blob when there is one.
LoadExistingTablesWithIndexFiles(tf, xf) ==
    LET read(blob) == [v \in {p[1] : p \in blob} |-> (CHOOSE p \in blob : p[1] = v)[2]]
        loaded == [n \in DOMAIN LoadedTables(tf) |->
                      [LoadedTables(tf)[n] EXCEPT
                          !.indexes = [c \in DOMAIN @ |->
                              IF IndexPath(n, c) \in DOMAIN xf
                              THEN read(xf[IndexPath(n, c)]) ELSE @[c]]]]
    IN  Db(loaded, tf, RebuiltIndexFiles(xf, loaded))

\* new Database(dataDir): loadExistingTables() over the files.
LoadExistingTables(tf, xf) ==
    Db(LoadedTables(tf), tf, RebuiltIndexFiles(xf, LoadedTables(tf)))

(***************************************************************************)
(* The statements the model submits.                                       *)
(***************************************************************************)
Where(column, operator, value) == [column |-> column, operator |-> operator, value |-> value]

Assign(column, value) == [column |-> column, value |-> value]

CreateTableSql(tableName, columns) ==
    Sql("CREATE TABLE", TRUE,
        Query("CREATE_TABLE", tableName, columns, <<>>, {}, NoWhere, NoJoin, <<>>))

InsertSql(tableName, values) ==
    Sql("INSERT INTO", TRUE, Query("INSERT", tableName, <<>>, values, {}, NoWhere, NoJoin, <<>>))

SelectSql(tableName, selectColumns, where, join) ==
    Sql("SELECT", TRUE, Query("SELECT", tableName, <<>>, <<>>, selectColumns, where, join, <<>>))

\* The select list as parseSelect reads it: '*' alone stands for all columns;
\* otherwise each item, a name with or without a table qualifier (<<"b",
\* "id">> is b.id, <<"", "id">> is id), is cut down to what follows its last
\* dot.
ParseSelectColumns(items) ==
    IF items = {<<"", "*">>} THEN {"*"} ELSE {item[2] : item \in items}

\* SELECT <items> FROM tableName ...
SelectItemsSql(tableName, items, where, join) ==
    SelectSql(tableName, ParseSelectColumns(items), where, join)

UpdateSql(tableName, setClause, where) ==
    Sql("UPDATE", TRUE, Query("UPDATE", tableName, <<>>, <<>>, {}, where, NoJoin, setClause))

DeleteSql(tableName, where) ==
    Sql("DELETE FROM", TRUE, Query("DELETE", tableName, <<>>, <<>>, {}, where, NoJoin, <<>>))

DropTableSql(tableName) ==
    Sql("DROP TABLE", TRUE, Query("DROP_TABLE", tableName, <<>>, <<>>, {}, NoWhere, NoJoin, <<>>))

\* Texts parse rejects: an unknown leading keyword, and a recognised keyword
\* whose statement pattern does not match.
BadSql ==
    {Sql(k, FALSE, Query("", "", <<>>, <<>>, {}, NoWhere, NoJoin, <<>>)) :
        k \in {"EXPLAIN", "INSERT INTO", "SELECT"}}

\* CREATE TABLE t (id INT PRIMARY KEY, name TEXT NOT NULL)
KeyedColumns ==
    <<Column("id", "INT", TRUE, FALSE, FALSE), Column("name", "TEXT", FALSE, FALSE, TRUE)>>

\* CREATE TABLE t (id FLOAT UNIQUE, name TEXT NOT NULL)
UniqueColumns ==
    <<Column("id", "FLOAT", FALSE, TRUE, FALSE), Column("name", "TEXT", FALSE, FALSE, TRUE)>>

\* VALUES lists: valid rows, a null key, a non-finite FLOAT, a null in the
\* NOT NULL column, values of the wrong type, and a short list.
InsertValues ==
    {<<Num(1), Str("x")>>, <<Num(2), Str("x")>>, <<Num(3), Str("x")>>,
     <<Null, Str("x")>>, <<Infinity, Str("x")>>, <<Num(1), Null>>,
     <<Str("1"), Str("x")>>, <<Num(1), Num(1)>>, <<Num(1)>>}

\* WHERE clauses: none, equality on the indexed column (with a number and
\* with a numeric string), equality on the column without index, an unknown
\* column, and an ordering comparison.
Wheres ==
    {NoWhere, Where("id", "=", Num(1)), Where("id", "=", Num(2)),
     Where("id", "=", Str("1")), Where("name", "=", Str("x")),
     Where("nope", "=", Num(1)), Where("id", ">", Num(1))}

\* SET clauses: a valid key assignment, a valid assignment followed by one
\* of the wrong type, an unknown column, a value of the wrong type.
SetClauses ==
    {<<Assign("id", Num(2))>>, <<Assign("id", Num(3)), Assign("name", Num(1))>>,
     <<Assign("nope", Num(1))>>, <<Assign("name", Num(1))>>}

Projections == {{"*"}, {"id"}}

\* The statements of each kind against table t.
CreateStatements(columnLists) == {CreateTableSql("t", columns) : columns \in columnLists}

InsertStatements == {InsertSql("t", values) : values \in InsertValues}

SelectStatements ==
    {SelectSql("t", columns, where, NoJoin) : columns \in Projections, where \in Wheres}

UpdateStatements ==
    {UpdateSql("t", setClause, where) : setClause \in SetClauses, where \in Wheres}

DeleteStatements == {DeleteSql("t", where) : where \in Wheres}

(***************************************************************************)
(* Spec: every statement kind against one table of few rows.               *)
(***************************************************************************)
\* No call of execute() made yet: no call in progress, and the engine and
\* the result that the calls made so far give when executed one after
\* another, in the order they were made.
NoCalls ==
    [frames |-> <<>>, made |-> 0, serial |-> Db(<<>>, <<>>, <<>>),
     expected |-> Failure("", "")]

Init ==
    /\ tables = <<>>
    /\ tableFiles = <<>>
    /\ indexFiles = <<>>
    /\ result = Failure("", "")
    /\ escaped = FALSE
    /\ calls = NoCalls

\* The next row identifier of the table, 0 when it is not registered.
NextRowId(tableName) ==
    IF tableName \in DOMAIN tables THEN tables[tableName].nextRowId ELSE 0

\* Whether every bucket of the table is shorter than n.
BucketsBelow(tableName, n) ==
    tableName \in DOMAIN tables =>
        \A c \in DOMAIN tables[tableName].indexes :
            \A v \in DOMAIN tables[tableName].indexes[c] :
                Len(tables[tableName].indexes[c][v]) < n

CreateTable == \E sql \in CreateStatements({KeyedColumns}) :
    sql.keyword = "CREATE TABLE" /\ Execute(sql)

InsertRow == \E sql \in InsertStatements : NextRowId("t") < MaxRowId /\ Execute(sql)

SelectRows == \E sql \in SelectStatements : sql.keyword = "SELECT" /\ Execute(sql)

UpdateRows == \E sql \in UpdateStatements : BucketsBelow("t", MaxBucket) /\ Execute(sql)

DeleteRows == \E sql \in DeleteStatements : sql.keyword = "DELETE FROM" /\ Execute(sql)

DropTable == \E sql \in {DropTableSql("t")} : sql.keyword = "DROP TABLE" /\ Execute(sql)

Rejected == \E sql \in BadSql : ~sql.matches /\ Execute(sql)

\* new Database(dataDir) over the files the previous engine left.
Restart ==
    /\ tables' = LoadExistingTables(tableFiles, indexFiles).tables
    /\ tableFiles' = LoadExistingTables(tableFiles, indexFiles).tableFiles
    /\ indexFiles' = LoadExistingTables(tableFiles, indexFiles).indexFiles
    /\ result' = Failure("", "")
    /\ escaped' = FALSE
    /\ calls' = calls

Next ==
    \/ CreateTable
    \/ InsertRow
    \/ SelectRows
    \/ UpdateRows
    \/ DeleteRows
    \/ DropTable
    \/ Rejected
    \/ Restart

Spec == Init /\ [][Next]_vars

(***************************************************************************)
(* SpecDelete: CREATE TABLE, INSERT, SELECT and DELETE only, more rows.    *)
(***************************************************************************)
CreateEither == \E sql \in CreateStatements({KeyedColumns, UniqueColumns}) :
    sql.keyword = "CREATE TABLE" /\ Execute(sql)

InsertDeep == \E sql \in InsertStatements : NextRowId("t") < MaxDeepRowId /\ Execute(sql)

NextDelete ==
    \/ CreateEither
    \/ InsertDeep
    \/ SelectRows
    \/ DeleteRows

SpecDelete == Init /\ [][NextDelete]_vars

(***************************************************************************)
(* SpecRoundTrip: successful and failed CREATE TABLE and INSERT only.       *)
(***************************************************************************)
NextRoundTrip ==
    \/ CreateEither
    \/ InsertDeep

SpecRoundTrip == Init /\ [][NextRoundTrip]_vars

(***************************************************************************)
(* SpecJoin: two tables a and b, INSERT and SELECT ... JOIN.               *)
(***************************************************************************)
\* CREATE TABLE b (id INT, val INT)
PlainColumns ==
    <<Column("id", "INT", FALSE, FALSE, FALSE), Column("val", "INT", FALSE, FALSE, FALSE)>>

\* CREATE TABLE a (id INT PRIMARY KEY, name TEXT NOT NULL) and b as above.
JoinCreateStatements == {CreateTableSql("a", KeyedColumns), CreateTableSql("b", PlainColumns)}

\* Rows of a: keys 1, 2 and null, a name that is a numeric string.
\* Rows of b: ids 1, 3 and null, values 1 and 2.
JoinInsertStatements ==
    {InsertSql("a", values) :
        values \in {<<Num(1), Str("x")>>, <<Num(2), Str("1")>>, <<Null, Str("x")>>}}
        \cup {InsertSql("b", values) :
                 values \in {<<Num(1), Num(1)>>, <<Num(3), Num(2)>>, <<Null, Num(1)>>}}

JoinOn(table, leftTable, leftColumn, rightTable, rightColumn) ==
    [table |-> table, leftTable |-> leftTable, leftColumn |-> leftColumn,
     rightTable |-> rightTable, rightColumn |-> rightColumn]

\* FROM l JOIN r ON l.x = r.y for the two tables in either role (and each
\* with itself), on the shared column, on columns of different names and
\* types, and on a column neither table has.
JoinStatements ==
    {SelectSql(l, columns, NoWhere, JoinOn(r, l, on[1], r, on[2])) :
        l \in {"a", "b"}, r \in {"a", "b"},
        on \in {<<"id", "id">>, <<"id", "val">>, <<"name", "val">>, <<"nope", "nope">>},
        columns \in {{"*"}, {"id"}, {"name", "val"}}}

\* The number of rows of the table, 0 when it is not registered.
RowCount(tableName) ==
    IF tableName \in DOMAIN tables THEN Len(tables[tableName].rows) ELSE 0

JoinCreate == \E sql \in JoinCreateStatements : sql.keyword = "CREATE TABLE" /\ Execute(sql)

JoinInsert == \E sql \in JoinInsertStatements :
    RowCount(sql.query.tableName) < MaxJoinRows /\ Execute(sql)

JoinSelect == \E sql \in JoinStatements : sql.keyword = "SELECT" /\ Execute(sql)

NextJoin ==
    \/ JoinCreate
    \/ JoinInsert
    \/ JoinSelect

SpecJoin == Init /\ [][NextJoin]_vars

(***************************************************************************)
(* Key uniqueness, duplicate rejection and index consistency (SpecDelete). *)
(***************************************************************************)
\* The positions (from 0) of the rows whose column holds exactly the value.
Holders(rows, columnName, value) ==
    {i \in 0..(Len(rows) - 1) : Get(rows[i + 1], columnName) = value}

\* The non-null values the rows hold in the column.
HeldValues(rows, columnName) ==
    {Get(rows[i], columnName) : i \in 1..Len(rows)} \ {Null, Undefined}

\* The elements of a sequence.
Range(seq) == {seq[i] : i \in 1..Len(seq)}

\* C1: in every state reached by CREATE TABLE, INSERT and DELETE statements
\* (UPDATE left out, which only adds ways to fail), no two live rows of a
\* table hold the same non-null value in its primary-key column or in one of
\* its unique columns.
C1_NoDuplicateKeys ==
    \A n \in DOMAIN tables :
        \A c \in IndexedColumns(tables[n].schema) :
            \A v \in HeldValues(tables[n].rows, c) :
                Cardinality(Holders(tables[n].rows, c, v)) = 1

\* Whether the VALUES list would pass the column-count, NOT NULL and type
\* checks of the table.
WellFormed(table, values) ==
    /\ Len(values) = Len(table.schema.columns)
    /\ FirstBadColumn(table.schema.columns, values) = 0

\* Whether the VALUES list repeats a non-null value some live row holds in
\* the primary-key column or in a unique column.
Collides(table, values) ==
    \E j \in 1..Len(table.schema.columns) :
        /\ table.schema.columns[j].name \in IndexedColumns(table.schema)
        /\ values[j] \in HeldValues(table.rows, table.schema.columns[j].name)

\* C2: in every reachable state, deleted rows or not, an otherwise valid
\* INSERT whose key value is held by a live row fails with a duplicate-key
\* error and leaves the table, its buckets and the files as they were.
C2_DuplicateRejected ==
    \A sql \in InsertStatements :
        ("t" \in DOMAIN tables
            /\ WellFormed(tables["t"], sql.query.values)
            /\ Collides(tables["t"], sql.query.values))
        => /\ ~Run(sql).result.success
           /\ Run(sql).result.error \in {"Duplicate primary key", "Duplicate unique key"}
           /\ Run(sql).db = Db(tables, tableFiles, indexFiles)

\* Whether the buckets of the column are exactly the positions of the live
\* rows per held value.
BucketsExact(table, columnName) ==
    /\ DOMAIN table.indexes[columnName] = HeldValues(table.rows, columnName)
    /\ \A v \in DOMAIN table.indexes[columnName] :
           /\ Range(table.indexes[columnName][v]) = Holders(table.rows, columnName, v)
           /\ Len(table.indexes[columnName][v]) =
                  Cardinality(Holders(table.rows, columnName, v))

\* C3: right after a successful INSERT or DELETE, every bucket of every
\* index holds exactly the identifiers that address the live rows holding
\* its value, and no value without a live row has a bucket.
C3_IndexConsistent ==
    (result.type \in {"INSERT", "UPDATE", "DELETE"} /\ result.success)
    => \A n \in DOMAIN tables :
           \A c \in DOMAIN tables[n].indexes : BucketsExact(tables[n], c)

\* C4: an equality SELECT on an indexed column returns the rows a scan of
\* all live rows with the same equality predicate returns.
C4_IndexMatchesScan ==
    \A sql \in SelectStatements :
        ("t" \in DOMAIN tables
            /\ sql.query.selectColumns = {"*"}
            /\ UsesIndex(tables["t"], sql.query.whereClause))
        => Run(sql).result.rows = Scan(tables["t"].rows, sql.query.whereClause)

(***************************************************************************)
(* Restart over the same data directory (SpecRoundTrip).                   *)
(***************************************************************************)
\* The names, schemas and rows of a registry of tables.
Contents(registry) ==
    [n \in DOMAIN registry |-> [schema |-> registry[n].schema, rows |-> registry[n].rows]]

\* C5: after any sequence of CREATE TABLE and INSERT statements, a new
\* engine over the same files holds the same table names, schemas and rows.
C5_RestartRestores ==
    Contents(LoadExistingTables(tableFiles, indexFiles).tables) = Contents(tables)

(***************************************************************************)
(* Failed INSERT, delete-then-reinsert (Spec, SpecDelete).                 *)
(***************************************************************************)
\* The errors of insert's column-count check and per-column loop.
ColumnErrors == {"Column count mismatch", "cannot be null", "Invalid type"}

\* C6: an INSERT that fails on the column count, on NOT NULL or on a value's
\* type leaves the rows, the buckets, the next row identifier and the table
\* and index files as they were before the statement.
C6_FailedInsertChangesNothing ==
    [][(result'.type = "INSERT" /\ result'.error \in ColumnErrors)
           => UNCHANGED <<tables, tableFiles, indexFiles>>]_vars

\* A type-mismatched INSERT has been refused on a table that holds a row and
\* has its files written.
C6_Witness ==
    /\ result.type = "INSERT"
    /\ result.error = "Invalid type"
    /\ "t" \in DOMAIN tables
    /\ Len(tables["t"].rows) > 0
    /\ "t" \in DOMAIN tableFiles

\* The value the VALUES list gives the primary-key column of the table.
KeyValue(table, values) ==
    values[CHOOSE j \in 1..Len(table.schema.columns) :
               table.schema.columns[j].name = table.schema.primaryKey]

\* Whether the step is a DELETE after which no live row holds the value v
\* that some row held before in the primary-key column.
DeletedAll(v) ==
    /\ result'.type = "DELETE"
    /\ result'.success
    /\ "t" \in DOMAIN tables
    /\ tables["t"].schema.primaryKey # ""
    /\ Holders(tables["t"].rows, tables["t"].schema.primaryKey, v) # {}
    /\ Holders(tables'["t"].rows, tables["t"].schema.primaryKey, v) = {}

\* C7: after a DELETE that removes every row holding primary-key value v, an
\* otherwise valid INSERT of a row with primary-key value v succeeds.
C7_ReinsertAfterDelete ==
    [][\A sql \in InsertStatements :
           ("t" \in DOMAIN tables
               /\ WellFormed(tables["t"], sql.query.values)
               /\ tables["t"].schema.primaryKey # ""
               /\ DeletedAll(KeyValue(tables["t"], sql.query.values)))
           => Run(sql)'.result.success]_vars

(***************************************************************************)
(* The error boundary (Spec).                                              *)
(***************************************************************************)
\* Every statement the model submits to one table, and the rejected texts.
AllStatements ==
    CreateStatements({KeyedColumns}) \cup InsertStatements \cup SelectStatements
        \cup UpdateStatements \cup DeleteStatements \cup {DropTableSql("t")} \cup BadSql

\* C9: no call of execute() has raised to its caller, and in every state a
\* call with any statement returns a result; when parsing raises, the result
\* has success = false and carries the error's text.
C9_NoErrorEscapes ==
    /\ ~escaped
    /\ \A sql \in AllStatements :
           /\ ~Run(sql).escaped
           /\ Parse(sql).thrown # ""
                  => /\ ~Run(sql).result.success
                     /\ Run(sql).result.error = Parse(sql).thrown

\* A text the parser rejects has been executed against an engine holding a
\* table, and a failure result came back.
C9_Witness ==
    /\ "t" \in DOMAIN tables
    /\ ~result.success
    /\ result.error = "Invalid syntax"
    /\ ~escaped

\* Whether the clause names a column the schema lacks.
UnknownSet(table, setClause) ==
    \E j \in 1..Len(setClause) : setClause[j].column \notin ColumnNames(table.schema)

UnknownWhere(table, where) ==
    where # NoWhere /\ where.column \notin ColumnNames(table.schema)

\* C10: in every state of the table, the empty one included, an UPDATE whose
\* SET names an unknown column and a SELECT, UPDATE or DELETE whose WHERE
\* names an unknown column return success = false.
C10_UnknownColumnFails ==
    "t" \in DOMAIN tables =>
        /\ \A sql \in UpdateStatements :
               UnknownSet(tables["t"], sql.query.setClause) => ~Run(sql).result.success
        /\ \A sql \in SelectStatements \cup UpdateStatements \cup DeleteStatements :
               UnknownWhere(tables["t"], sql.query.whereClause) => ~Run(sql).result.success

(***************************************************************************)
(* The join (SpecJoin).                                                    *)
(***************************************************************************)
\* The pairs of a left-row position and a right-row position whose join
\* columns hold the same value.
EqualPairs(leftRows, rightRows, join) ==
    {p \in (1..Len(leftRows)) \X (1..Len(rightRows)) :
        Get(leftRows[p[1]], join.leftColumn) = Get(rightRows[p[2]], join.rightColumn)}

\* The left row and the right row a merged row was made of: the left values
\* are under the bare names, the right values under the qualified names.
Unmerged(row, leftColumns, rightName, rightColumns) ==
    <<[c \in leftColumns |-> Get(row, c)],
      [c \in rightColumns |-> Get(row, Qualified(rightName, c))]>>

\* Whether the rows of the result are, pair for pair with multiplicity, the
\* merged rows of the pairs.
OneRowPerPair(rows, leftTable, rightTable, pairs) ==
    \A l \in Range(leftTable.rows), r \in Range(rightTable.rows) :
        Cardinality({k \in 1..Len(rows) :
                        Unmerged(rows[k], ColumnNames(leftTable.schema),
                                 rightTable.schema.name,
                                 ColumnNames(rightTable.schema)) = <<l, r>>})
            = Cardinality({p \in pairs :
                              leftTable.rows[p[1]] = l /\ rightTable.rows[p[2]] = r})

\* What C8 requires of one result of a join of the two tables.
JoinCorrect(res, leftTable, rightTable, query) ==
    /\ res.success
    /\ res.rowsScanned = Len(leftTable.rows) * Len(rightTable.rows)
    /\ Len(res.rows) =
           Cardinality(EqualPairs(leftTable.rows, rightTable.rows, query.joinClause))
    /\ "*" \in query.selectColumns
           => OneRowPerPair(res.rows, leftTable, rightTable,
                            EqualPairs(leftTable.rows, rightTable.rows, query.joinClause))

\* C8: a SELECT with JOIN returns one merged row for each pair of a left row
\* and a right row whose join columns hold the same value and no other row,
\* and reports rowsScanned = |left rows| * |right rows|.
C8_JoinPairs ==
    \A sql \in JoinStatements :
        (sql.query.tableName \in DOMAIN tables /\ sql.query.joinClause.table \in DOMAIN tables)
        => JoinCorrect(Run(sql).result, tables[sql.query.tableName],
                       tables[sql.query.joinClause.table], sql.query)

\* A join of two tables of two rows each has returned one merged row out of
\* four pairs.
C8_Witness ==
    /\ result.type = "SELECT"
    /\ result.success
    /\ result.rowsScanned = 4
    /\ Len(result.rows) = 1
    /\ "b.id" \in DOMAIN result.rows[1]
    /\ RowCount("a") = 2
    /\ RowCount("b") = 2

(***************************************************************************)
(* SpecUpdate: CREATE TABLE with columns of every type, INSERT, UPDATE     *)
(* with null and mistyped assignments, and a restart.                      *)
(***************************************************************************)
\* CREATE TABLE t (id INT PRIMARY KEY, name BOOLEAN)
FlagColumns ==
    <<Column("id", "INT", TRUE, FALSE, FALSE), Column("name", "BOOLEAN", FALSE, FALSE, FALSE)>>

\* VALUES lists: those of InsertValues, a boolean, and a number with a
\* fraction as key.
TypedInsertValues ==
    InsertValues \cup {<<Num(1), Bool(TRUE)>>, <<Half(1), Str("x")>>}

\* SET clauses: those of SetClauses, a null for each column, a boolean, and
\* a number with a fraction for the key.
TypedSetClauses ==
    SetClauses \cup {<<Assign("name", Null)>>, <<Assign("id", Null)>>,
                     <<Assign("name", Bool(FALSE))>>, <<Assign("id", Half(1))>>}

\* The UPDATE statements of SpecUpdate: every SET clause, on all rows and on
\* the rows with id = 1.
TypedUpdateStatements ==
    {UpdateSql("t", setClause, where) :
        setClause \in TypedSetClauses, where \in {NoWhere, Where("id", "=", Num(1))}}

CreateTyped == \E sql \in CreateStatements({KeyedColumns, UniqueColumns, FlagColumns}) :
    sql.keyword = "CREATE TABLE" /\ Execute(sql)

InsertTyped == \E values \in TypedInsertValues :
    NextRowId("t") < MaxRowId /\ Execute(InsertSql("t", values))

UpdateTyped == \E sql \in TypedUpdateStatements :
    BucketsBelow("t", MaxBucket) /\ Execute(sql)

NextUpdate ==
    \/ CreateTyped
    \/ InsertTyped
    \/ UpdateTyped
    \/ Restart

SpecUpdate == Init /\ [][NextUpdate]_vars

(***************************************************************************)
(* Column constraints on the stored rows (SpecUpdate, SpecDelete).         *)
(***************************************************************************)
\* C11: after any sequence of INSERT and UPDATE statements, no live row
\* holds null or lacks a value in a column declared NOT NULL.
C11_NotNullHolds ==
    \A n \in DOMAIN tables :
        \A i \in 1..Len(tables[n].rows) :
            \A j \in 1..Len(tables[n].schema.columns) :
                tables[n].schema.columns[j].notNull
                    => ~IsNullish(Get(tables[n].rows[i], tables[n].schema.columns[j].name))

\* C12: no live row of a table with a primary key holds null in the
\* primary-key column, also when the column is PRIMARY KEY without NOT NULL.
C12_KeyNotNull ==
    \A n \in DOMAIN tables :
        tables[n].schema.primaryKey # ""
            => \A i \in 1..Len(tables[n].rows) :
                   ~IsNullish(Get(tables[n].rows[i], tables[n].schema.primaryKey))

\* Whether a value is of the declared type: INT an integral number, FLOAT a
\* number, TEXT a string, BOOLEAN a boolean.
HasType(v, type) ==
    CASE type = "INT" -> v.k = "number" /\ v.s = ""
      [] type = "FLOAT" -> v.k = "number"
      [] type = "TEXT" -> v.k = "string"
      [] type = "BOOLEAN" -> v.k = "boolean"
      [] OTHER -> FALSE

\* C13: after any sequence of statements, successful or failed, every
\* non-null value a live row holds in a column is of the column's declared
\* type.
C13_TypesHold ==
    \A n \in DOMAIN tables :
        \A i \in 1..Len(tables[n].rows) :
            \A j \in 1..Len(tables[n].schema.columns) :
                ~IsNullish(Get(tables[n].rows[i], tables[n].schema.columns[j].name))
                    => HasType(Get(tables[n].rows[i], tables[n].schema.columns[j].name),
                               tables[n].schema.columns[j].type)

\* An UPDATE has aborted on a value of the wrong type after it had assigned
\* id = 3 to a row: the row holds 3 and the index on id has no bucket for 3.
C13_Witness ==
    /\ result.type = "UPDATE"
    /\ result.error = "Invalid type"
    /\ "t" \in DOMAIN tables
    /\ Len(tables["t"].rows) > 0
    /\ Get(tables["t"].rows[1], "id") = Num(3)
    /\ Num(3) \notin DOMAIN tables["t"].indexes["id"]

(***************************************************************************)
(* UPDATE and the key constraints (Spec).                                  *)
(***************************************************************************)
\* Whether no two rows of a table of the registry hold the same non-null
\* value in its primary-key column or in one of its unique columns.
KeysDistinct(registry) ==
    \A n \in DOMAIN registry :
        \A c \in IndexedColumns(registry[n].schema) :
            \A v \in HeldValues(registry[n].rows, c) :
                Cardinality(Holders(registry[n].rows, c, v)) = 1

\* C14: an UPDATE on a table whose key values are distinct does not leave
\* two live rows sharing a non-null primary-key or unique value, whether it
\* sets one row to another row's value or several rows to one value.
C14_UpdateKeepsKeys ==
    \A sql \in UpdateStatements :
        ("t" \in DOMAIN tables /\ KeysDistinct(tables))
        => KeysDistinct(Run(sql).db.tables)

(***************************************************************************)
(* DROP TABLE and CREATE TABLE on the registry (Spec).                     *)
(***************************************************************************)
\* Whether the engine holds nothing of the table: no registry entry, no
\* table blob, no blob of one of its indexes, and nothing a restart would
\* load.
Gone(db, table) ==
    /\ table.schema.name \notin DOMAIN db.tables
    /\ table.schema.name \notin DOMAIN db.tableFiles
    /\ \A c \in DOMAIN table.indexes :
           IndexPath(table.schema.name, c) \notin DOMAIN db.indexFiles
    /\ table.schema.name
           \notin DOMAIN LoadExistingTables(db.tableFiles, db.indexFiles).tables

\* C15: DROP TABLE of an unregistered name fails and changes nothing; DROP
\* TABLE of a registered table succeeds and removes the registry entry, the
\* table blob and every index blob of the table.
C15_DropRemovesAll ==
    IF "t" \in DOMAIN tables
    THEN Run(DropTableSql("t")).result.success /\ Gone(Run(DropTableSql("t")).db, tables["t"])
    ELSE /\ ~Run(DropTableSql("t")).result.success
         /\ Run(DropTableSql("t")).db = Db(tables, tableFiles, indexFiles)

\* C16: CREATE TABLE with a registered name fails and leaves the table's
\* schema, rows and buckets and the table and index files as they were.
C16_CreateExistingFails ==
    "t" \in DOMAIN tables =>
        \A sql \in CreateStatements({KeyedColumns, UniqueColumns}) :
            /\ ~Run(sql).result.success
            /\ Run(sql).db = Db(tables, tableFiles, indexFiles)

\* A CREATE TABLE has been refused for a table that holds a row and has its
\* files written.
C16_Witness ==
    /\ result.type = "CREATE_TABLE"
    /\ ~result.success
    /\ result.error = "already exists"
    /\ "t" \in DOMAIN tables
    /\ Len(tables["t"].rows) > 0
    /\ "t" \in DOMAIN tableFiles

(***************************************************************************)
(* Write-through (SpecDelete).                                             *)
(***************************************************************************)
\* Whether the files hold exactly what the table holds in memory: the
\* schema and the rows in the table blob, and per index the buckets in its
\* index blob.
WrittenThrough(table) ==
    /\ table.schema.name \in DOMAIN tableFiles
    /\ tableFiles[table.schema.name].schema = table.schema
    /\ tableFiles[table.schema.name].rows = table.rows
    /\ \A c \in DOMAIN table.indexes :
           /\ IndexPath(table.schema.name, c) \in DOMAIN indexFiles
           /\ indexFiles[IndexPath(table.schema.name, c)] =
                  {<<v, table.indexes[c][v]>> : v \in DOMAIN table.indexes[c]}

\* C17: right after a successful INSERT, and after an UPDATE or DELETE that
\* affected at least one row, the table blob holds the schema and the rows
\* of the table in memory and every index blob holds the buckets of its
\* index in memory.
C17_WriteThrough ==
    (/\ result.success
     /\ result.type \in {"INSERT", "UPDATE", "DELETE"}
     /\ result.rowsAffected > 0)
    => WrittenThrough(tables["t"])

(***************************************************************************)
(* The counters of a single-table SELECT (SpecDelete).                     *)
(***************************************************************************)
\* The number of identifiers in the bucket of the value, 0 without a bucket.
BucketSize(map, value) == IF value \in DOMAIN map THEN Len(map[value]) ELSE 0

\* What C18 requires of the result of a SELECT with the WHERE clause.
CountersCorrect(res, table, where) ==
    IF where # NoWhere /\ where.operator = "=" /\ where.column \in IndexedColumns(table.schema)
    THEN /\ res.rowsScanned = BucketSize(table.indexes[where.column], where.value)
         /\ res.indexUsed = "t_" \o where.column \o "_idx"
    ELSE /\ res.rowsScanned = Len(table.rows)
         /\ res.indexUsed = ""

C20_FailedUpdateNoEffect ==
    "t" \in DOMAIN tables =>
        \A sql \in UpdateStatements :
            Run(sql).result.error \in {"does not exist", "Invalid type"}
                => Run(sql).db = Db(tables, tableFiles, indexFiles)

(***************************************************************************)
(* SpecCallers: handlers of requests and console lines calling execute()   *)
(* on one engine, a call taken in the steps the code orders: parse and     *)
(* validate, change the tables in memory, write the files, return.         *)
(***************************************************************************)
\* The statements the callers submit.
CallStatements ==
    {CreateTableSql("t", KeyedColumns),
     InsertSql("t", <<Num(1), Str("x")>>),
     InsertSql("t", <<Num(2), Str("x")>>),
     UpdateSql("t", <<Assign("id", Num(2))>>, Where("id", "=", Num(1))),
     DeleteSql("t", Where("id", "=", Num(1))),
     SelectSql("t", {"*"}, NoWhere, NoJoin)} \cup BadSql

\* A call in progress: what it is going to leave (computed from the engine
\* it found), the result a one-after-another execution gives it, and how
\* far it has come.
Frame(after, expected) == [after |-> after, expected |-> expected, pc |-> "validated"]

\* An engine whose execute() yielded between its steps: a handler may start
\* while another call is in progress.
MayEnterAnytime(frames) == TRUE

\* Whether a handler calling execute() may start: execute and everything it
\* calls is synchronous (no await, no callback, the *Sync file operations),
\* so the runtime starts no other handler before a call in progress returns.
MayEnter(frames) == frames = <<>>

\* The bookkeeping of a call that starts: run is what it makes of the engine
\* as it stands, serialRun what it makes of the engine the earlier calls
\* leave when executed one after another.
Entered(run, serialRun) ==
    calls' = [calls EXCEPT !.frames = Append(@, Frame(run, serialRun.result)),
                           !.made = @ + 1,
                           !.serial = serialRun.db]

\* A handler calls execute(sql): parse and validation.
Enter == \E sql \in CallStatements :
    /\ MayEnter(calls.frames)
    /\ calls.made < MaxCalls
    /\ Entered(Run(sql), Catch(Try(calls.serial, sql)))
    /\ UNCHANGED <<tables, tableFiles, indexFiles, result, escaped>>

\* The call changes the tables in memory.
Mutate == \E i \in 1..Len(calls.frames) :
    /\ calls.frames[i].pc = "validated"
    /\ tables' = calls.frames[i].after.db.tables
    /\ calls' = [calls EXCEPT !.frames[i].pc = "mutated"]
    /\ UNCHANGED <<tableFiles, indexFiles, result, escaped>>

\* The call writes the files.
Persisted == \E i \in 1..Len(calls.frames) :
    /\ calls.frames[i].pc = "mutated"
    /\ tableFiles' = calls.frames[i].after.db.tableFiles
    /\ indexFiles' = calls.frames[i].after.db.indexFiles
    /\ calls' = [calls EXCEPT !.frames[i].pc = "persisted"]
    /\ UNCHANGED <<tables, result, escaped>>

\* The call returns its result to the handler.
Return == \E i \in 1..Len(calls.frames) :
    /\ calls.frames[i].pc = "persisted"
    /\ result' = calls.frames[i].after.result
    /\ escaped' = calls.frames[i].after.escaped
    /\ calls' = [calls EXCEPT !.frames = RemoveAt(@, i),
                              !.expected = calls.frames[i].expected]
    /\ UNCHANGED <<tables, tableFiles, indexFiles>>

NextCallers ==
    \/ Enter
    \/ Mutate
    \/ Persisted
    \/ Return

SpecCallers == Init /\ [][NextCallers]_vars

MatchingRows(rows, where) == {i \in 1..Len(rows) : Matches(rows[i], where)}

\* Whether the call left an earlier matching row changed in memory and in
\* the table blob while a later matching row is as it was.
PartlyPersisted(table, where, after) ==
    \E i, j \in MatchingRows(table.rows, where) :
        /\ i < j
        /\ after.tables["t"].rows[i] # table.rows[i]
        /\ "t" \in DOMAIN after.tableFiles
        /\ after.tableFiles["t"].rows[i] = JsonRows(after.tables["t"].rows)[i]
        /\ after.tables["t"].rows[j] = table.rows[j]

\* Whether some UPDATE of the model, run on the engine as it stands, fails
\* after it has mutated and persisted an earlier matching row.
SomeUpdatePartlyPersisted ==
    \E sql \in TypedUpdateStatements :
        /\ ~Run(sql).result.success
        /\ PartlyPersisted(tables["t"], sql.query.whereClause, Run(sql).db)

OnlyFirstMatchTouched(table, where, after) ==
    /\ after.tableFiles = tableFiles
    /\ after.indexFiles = indexFiles
    /\ after.tables["t"].indexes = table.indexes
    /\ Len(after.tables["t"].rows) = Len(table.rows)
    /\ \A i \in 1..Len(table.rows) :
           after.tables["t"].rows[i] # table.rows[i]
               => /\ i \in MatchingRows(table.rows, where)
                  /\ \A h \in 1..(i - 1) : h \notin MatchingRows(table.rows, where)

\* What the amended C21 requires of one call.
FailedAtFirstMatch(table, where, run) ==
    ~run.result.success => OnlyFirstMatchTouched(table, where, run.db)

SetValid(table, setClause) ==
    \A j \in 1..Len(setClause) :
        /\ setClause[j].column \in ColumnNames(table.schema)
        /\ \A c \in 1..Len(table.schema.columns) :
               table.schema.columns[c].name = setClause[j].column
                   => ValidateType(setClause[j].value, table.schema.columns[c].type)

\* The row with the SET values in the columns the clause names and its own
\* values in the others.
WithSet(row, setClause) ==
    [n \in DOMAIN row \cup {setClause[j].column : j \in 1..Len(setClause)} |->
        IF \E j \in 1..Len(setClause) : setClause[j].column = n
        THEN setClause[CHOOSE j \in 1..Len(setClause) : setClause[j].column = n].value
        ELSE row[n]]

\* The UPDATE statements C22 is checked for: every SET clause, on all rows,
\* on an equality, on an ordering comparison and on the column without index.
WhereUpdateStatements ==
    {UpdateSql("t", setClause, where) :
        setClause \in TypedSetClauses,
        where \in {NoWhere, Where("id", "=", Num(1)), Where("id", ">", Num(1)),
                   Where("name", "=", Str("x"))}}

\* What C22 requires of a call that succeeded: the matching rows carry the
\* SET values, every other row and column is as it was, in the same order,
\* and rowsAffected counts the matching rows.
UpdatedExactly(table, query, run) ==
    /\ Len(run.db.tables["t"].rows) = Len(table.rows)
    /\ \A i \in 1..Len(table.rows) :
           run.db.tables["t"].rows[i] =
               IF Matches(table.rows[i], query.whereClause)
               THEN WithSet(table.rows[i], query.setClause)
               ELSE table.rows[i]
    /\ run.result.rowsAffected = MatchCount(table.rows, query.whereClause)

\* What C22 requires of one call when the SET clause is valid.
UpdatedIfSuccessful(table, query, run) ==
    run.result.success => UpdatedExactly(table, query, run)

\* C22: a successful UPDATE with a valid SET clause assigns the SET values to
\* exactly the rows the WHERE clause matches (all rows without WHERE), leaves
\* the other rows and the columns SET does not name as they were, keeps the
\* number and the order of the rows, and reports the number of matching rows
\* as rowsAffected.
C22_UpdateExactlyMatching ==
    "t" \in DOMAIN tables =>
        \A sql \in WhereUpdateStatements :
            SetValid(tables["t"], sql.query.setClause)
                => UpdatedIfSuccessful(tables["t"], sql.query, Run(sql))

\* An UPDATE has set the id of the first of two rows to 2 and left the
\* second row, whose id is 3, as it was.
C22_Witness ==
    /\ result.type = "UPDATE"
    /\ result.success
    /\ result.rowsAffected = 1
    /\ "t" \in DOMAIN tables
    /\ Len(tables["t"].rows) = 2
    /\ Get(tables["t"].rows[1], "id") = Num(2)
    /\ Get(tables["t"].rows[2], "id") = Num(3)

(***************************************************************************)
(* What DELETE removes (SpecDelete).                                       *)
(***************************************************************************)
\* The rows the WHERE clause does not match, in their order.
Survivors(rows, where) == SelectSeq(rows, LAMBDA row : ~Matches(row, where))

\* What C23 requires of a DELETE run on the table.
DeletedExactly(table, where, run) ==
    /\ run.result.success
    /\ run.db.tables["t"].rows = Survivors(table.rows, where)
    /\ run.result.rowsAffected = MatchCount(table.rows, where)

\* C23: DELETE removes exactly the rows that match the WHERE clause when the
\* statement starts (all rows without WHERE): the other rows survive with
\* their content, in their order, and rowsAffected is the number of matching
\* rows, wherever in the table and however many they are.
C23_DeleteExactlyMatching ==
    "t" \in DOMAIN tables =>
        \A sql \in DeleteStatements :
            DeletedExactly(tables["t"], sql.query.whereClause, Run(sql))

\* One DELETE has removed the first and the third of three rows: the row
\* that was in the middle is the only one left, and its bucket still names
\* the position it had.
C23_Witness ==
    /\ result.type = "DELETE"
    /\ result.rowsAffected = 2
    /\ "t" \in DOMAIN tables
    /\ tables["t"].nextRowId = 3
    /\ Len(tables["t"].rows) = 1
    /\ Get(tables["t"].rows[1], "id") = Num(1)
    /\ MapGet(tables["t"].indexes["id"], Num(1)) = <<1>>

(***************************************************************************)
(* The order of INSERT's checks (SpecDelete).                              *)
(***************************************************************************)
\* VALUES lists for C24: those of InsertValues, a list whose first value is
\* of the wrong type and whose second is a null in the NOT NULL column, and
\* a long list of values that are wrong as well.
CheckedInsertValues ==
    InsertValues \cup {<<Str("1"), Null>>, <<Str("1"), Null, Num(1)>>, <<Null, Null>>}

\* Whether the column refuses the value: a null where NOT NULL is declared,
\* or a non-null value that is not of the column's type.
Refuses(col, value) ==
    \/ col.notNull /\ IsNullish(value)
    \/ ~IsNullish(value) /\ ~HasType(value, col.type)

\* Whether the duplicate check on the column finds the value: its bucket
\* names the position of a row.
Finds(table, columnName, value) ==
    /\ value \in DOMAIN table.indexes[columnName]
    /\ \E k \in Range(table.indexes[columnName][value]) : k < Len(table.rows)

\* The value the VALUES list gives the column of the name.
ValueOf(table, values, columnName) ==
    values[CHOOSE j \in 1..Len(table.schema.columns) :
               table.schema.columns[j].name = columnName]

\* The error the checks give when taken in the order column count, columns
\* in schema order, primary key, unique keys; "" when all pass.
FirstFailure(table, values) ==
    LET columns == table.schema.columns
        refused == {j \in 1..Len(columns) : Refuses(columns[j], values[j])}
        first == CHOOSE j \in refused : \A h \in refused : j <= h
    IN  IF Len(values) # Len(columns) THEN "Column count mismatch"
        ELSE IF refused # {}
        THEN (IF IsNullish(values[first]) THEN "cannot be null" ELSE "Invalid type")
        ELSE IF /\ table.schema.primaryKey # ""
                /\ Finds(table, table.schema.primaryKey,
                         ValueOf(table, values, table.schema.primaryKey))
        THEN "Duplicate primary key"
        ELSE IF \E u \in Range(table.schema.uniqueKeys) :
                    Finds(table, u, ValueOf(table, values, u))
        THEN "Duplicate unique key"
        ELSE ""

\* What C24 requires of an INSERT of the values, error being the first
\* failure: a failure with that error and nothing changed, or one row more
\* at the end, carrying the values.
InsertedInOrder(table, values, error, run) ==
    IF error # ""
    THEN /\ ~run.result.success
         /\ run.result.error = error
         /\ run.db = Db(tables, tableFiles, indexFiles)
    ELSE /\ run.result.success
         /\ run.result.rowsAffected = 1
         /\ run.db.tables["t"].rows =
                Append(table.rows,
                       [n \in ColumnNames(table.schema) |-> ValueOf(table, values, n)])

\* C24: INSERT checks the column count, then each column in schema order
\* (NOT NULL, then type), then the primary key, then the unique keys, and
\* reports the first failure; a failed INSERT changes no row, no bucket and
\* no file, and a successful one appends exactly one row at the end and
\* reports rowsAffected = 1.
C24_InsertCheckOrder ==
    "t" \in DOMAIN tables =>
        \A values \in CheckedInsertValues :
            InsertedInOrder(tables["t"], values, FirstFailure(tables["t"], values),
                            Run(InsertSql("t", values)))

\* An INSERT has been refused as a duplicate of the primary key in a table
\* of two rows whose files are written.
C24_Witness ==
    /\ result.type = "INSERT"
    /\ result.error = "Duplicate primary key"
    /\ "t" \in DOMAIN tables
    /\ Len(tables["t"].rows) = 2
    /\ "t" \in DOMAIN tableFiles
    /\ tableFiles["t"].rows = tables["t"].rows

(***************************************************************************)
(* The join's comparison and WHERE's (SpecJoin).                           *)
(***************************************************************************)
\* The pairs of a left-row position and a right-row position such that the
\* left row satisfies WHERE leftColumn = v in a scan, v being the value the
\* right row holds in the right column.
WherePairs(leftRows, rightRows, join) ==
    {p \in (1..Len(leftRows)) \X (1..Len(rightRows)) :
        EvaluateWhere(leftRows[p[1]],
                      Where(join.leftColumn, "=", Get(rightRows[p[2]], join.rightColumn)))}

\* Whether both tables of the join are registered and have the column the
\* ON clause designates on their side.
JoinColumnsKnown(query) ==
    /\ query.tableName \in DOMAIN tables
    /\ query.joinClause.table \in DOMAIN tables
    /\ query.joinClause.leftColumn \in ColumnNames(tables[query.tableName].schema)
    /\ query.joinClause.rightColumn \in ColumnNames(tables[query.joinClause.table].schema)

\* C25: the join (on columns the two tables have) retains a pair of rows
\* exactly when the left row satisfies, in a scan, the WHERE equality of its
\* join column with the right row's value: one result row per such pair.
C25_JoinEqualsLikeWhere ==
    \A sql \in JoinStatements :
        JoinColumnsKnown(sql.query)
        => Len(Run(sql).result.rows) =
               Cardinality(WherePairs(tables[sql.query.tableName].rows,
                                      tables[sql.query.joinClause.table].rows,
                                      sql.query.joinClause))

(***************************************************************************)
(* The merged row of a join and its projection (SpecJoin).                 *)
(***************************************************************************)
\* Whether the row exposes every column of the left row l and of the right
\* row r twice: under the qualified name with that side's value, and under
\* the bare name, the left value where both rows have the column.
ExposesBoth(row, leftName, l, rightName, r) ==
    /\ DOMAIN row = {Qualified(leftName, c) : c \in DOMAIN l}
                        \cup {Qualified(rightName, c) : c \in DOMAIN r}
                        \cup DOMAIN l \cup DOMAIN r
    /\ \A c \in DOMAIN l : row[Qualified(leftName, c)] = l[c] /\ row[c] = l[c]
    /\ \A c \in DOMAIN r :
           /\ row[Qualified(rightName, c)] = r[c]
           /\ c \notin DOMAIN l => row[c] = r[c]

\* What C26 requires of the rows of a wildcard join and of the rows of the
\* same join projected to the requested names, pairs being the retained
\* pairs in the order the join visits them.
MergedAsClaimed(merged, projected, columns, leftTable, rightTable, pairs) ==
    /\ Len(merged) = Len(pairs)
    /\ Len(projected) = Len(pairs)
    /\ \A k \in 1..Len(pairs) :
           /\ ExposesBoth(merged[k], leftTable.schema.name, leftTable.rows[pairs[k][1]],
                          rightTable.schema.name, rightTable.rows[pairs[k][2]])
           /\ "*" \notin columns
                  => /\ DOMAIN projected[k] = columns \cap DOMAIN merged[k]
                     /\ \A n \in DOMAIN projected[k] : projected[k][n] = merged[k][n]

\* C26: each merged row of a join exposes every column of both rows under
\* the qualified names leftTable.column and rightTable.column with the
\* respective side's value and under the bare name (the left value on a
\* collision); a projection keeps exactly the requested names that are keys
\* of the merged row.
C26_MergedRowExposesBoth ==
    \A sql \in JoinStatements :
        JoinColumnsKnown(sql.query)
        => MergedAsClaimed(
               Run(SelectSql(sql.query.tableName, {"*"}, NoWhere, sql.query.joinClause)).result.rows,
               Run(sql).result.rows, sql.query.selectColumns,
               tables[sql.query.tableName], tables[sql.query.joinClause.table],
               JoinPairs(tables[sql.query.tableName].rows,
                         tables[sql.query.joinClause.table].rows, sql.query.joinClause))

(***************************************************************************)
(* A qualified name in the select list of a join (SpecJoin).               *)
(***************************************************************************)
\* SELECT r.id FROM l JOIN r ON l.x = r.y for the two tables in either
\* role: the right table's column of the name both tables have.
RightIdStatements ==
    {SelectItemsSql(l, {<<r, "id">>}, NoWhere, JoinOn(r, l, on[1], r, on[2])) :
        l \in {"a", "b"}, r \in {"a", "b"},
        on \in {<<"id", "id">>, <<"id", "val">>, <<"val", "id">>}}

\* Whether every result row shows, for its pair, the value the right row
\* holds in the column and nothing else.
ShowsRightValue(rows, rightRows, pairs, columnName) ==
    /\ Len(rows) = Len(pairs)
    /\ \A k \in 1..Len(pairs) :
           /\ DOMAIN rows[k] # {}
           /\ \A n \in DOMAIN rows[k] : rows[k][n] = Get(rightRows[pairs[k][2]], columnName)

\* C27: when both tables of a join have a column id, SELECT rightTable.id
\* returns in every result row the value the right table's row holds in id.
C27_RightQualifiedColumn ==
    \A sql \in RightIdStatements :
        (JoinColumnsKnown(sql.query) /\ sql.query.tableName # sql.query.joinClause.table)
        => ShowsRightValue(Run(sql).result.rows, tables[sql.query.joinClause.table].rows,
                           JoinPairs(tables[sql.query.tableName].rows,
                                     tables[sql.query.joinClause.table].rows,
                                     sql.query.joinClause),
                           "id")

(***************************************************************************)
(* The rows a SELECT with WHERE returns (SpecDelete).                      *)
(***************************************************************************)
\* C28: in every reachable state of the table, every row a single-table
\* SELECT * with a WHERE clause returns satisfies the WHERE predicate,
\* whether a bucket or a scan answers it.
C28_SelectedRowsMatch ==
    "t" \in DOMAIN tables =>
        \A sql \in SelectStatements :
            (sql.query.whereClause # NoWhere /\ sql.query.selectColumns = {"*"})
            => \A row \in Range(Run(sql).result.rows) :
                   EvaluateWhere(row, sql.query.whereClause)

(***************************************************************************)
(* The order of the operands of ON (SpecJoin).                             *)
(***************************************************************************)
\* ON l.x = r.y and ON r.y = l.x as parseSelect reads them: the first
\* operand's table and column become leftTable and leftColumn, the second
\* operand's rightTable and rightColumn.
OnLeftFirst(l, x, r, y) == JoinOn(r, l, x, r, y)

OnRightFirst(l, x, r, y) == JoinOn(r, r, y, l, x)

\* C29: for two tables l and r, FROM l JOIN r ON l.x = r.y and FROM l JOIN r
\* ON r.y = l.x return the same rows, whatever the two tables hold.
C29_OnOperandOrder ==
    \A l \in {"a", "b"}, r \in {"a", "b"} :
        \A on \in {<<"id", "id">>, <<"id", "val">>, <<"name", "val">>, <<"val", "id">>} :
            (l # r /\ JoinColumnsKnown(SelectSql(l, {"*"}, NoWhere,
                                                   OnLeftFirst(l, on[1], r, on[2])).query))
            => Run(SelectSql(l, {"*"}, NoWhere, OnRightFirst(l, on[1], r, on[2]))).result.rows
                   = Run(SelectSql(l, {"*"}, NoWhere, OnLeftFirst(l, on[1], r, on[2]))).result.rows

(***************************************************************************)
(* A SELECT with JOIN and WHERE (SpecJoin).                                *)
(***************************************************************************)
\* SELECT * FROM a JOIN b ON a.id = b.id WHERE id <op> 1, and the same for
\* a column of the right table only.
JoinWhereStatements ==
    {SelectSql("a", {"*"}, where, JoinOn("b", "a", "id", "b", "id")) :
        where \in {Where("id", "=", Num(2)), Where("id", ">", Num(1)),
                   Where("val", "=", Num(2))}}

\* C30: every merged row a SELECT with a JOIN and a WHERE clause returns
\* satisfies the WHERE predicate.
C30_JoinHonoursWhere ==
    \A sql \in JoinWhereStatements :
        \A row \in Range(Run(sql).result.rows) : EvaluateWhere(row, sql.query.whereClause)

(***************************************************************************)
(* Row identifiers and buckets in histories without DELETE and without     *)
(* failed UPDATE (Spec).                                                   *)
(***************************************************************************)
\* Whether the table's next row identifier is its row count and every bucket
\* of every index holds exactly the positions of the rows holding its value.
\* A row's identifier is the value nextRowId had when it was inserted, and
\* its position the row count at that time, so the two agree for every row
\* as long as the counter equals the row count.
InStep(table) ==
    /\ table.nextRowId = Len(table.rows)
    /\ \A c \in DOMAIN table.indexes : BucketsExact(table, c)

AllInStep(registry) == \A n \in DOMAIN registry : InStep(registry[n])

\* Whether the result is the one of a DELETE or of a failed UPDATE.
DeleteOrFailedUpdate(res) ==
    res.type = "DELETE" \/ (res.type = "UPDATE" /\ ~res.success)

\* C31: a table starts in step (next row identifier = row count, buckets
\* exactly the positions of the rows per value) when it is created and when
\* it is reloaded at a restart, and every statement other than a DELETE and a
\* failed UPDATE keeps every table in step.
C31_InStepWithoutDelete ==
    [][/\ (result' = Failure("", "") /\ Restart) => AllInStep(tables')
       /\ \A n \in DOMAIN tables' \ DOMAIN tables : InStep(tables'[n])
       /\ (tables' # tables /\ AllInStep(tables) /\ ~DeleteOrFailedUpdate(result'))
              => AllInStep(tables')]_vars

\* A successful UPDATE has moved both rows of a table in step to one key
\* value, and the table is in step: the bucket of the value holds both
\* positions and the next row identifier is 2.
C31_Witness ==
    /\ result.type = "UPDATE" /\ result.success /\ result.rowsAffected = 2
    /\ "t" \in DOMAIN tables
    /\ Len(tables["t"].rows) = 2
    /\ InStep(tables["t"])
    /\ Len(MapGet(tables["t"].indexes["id"], Num(2))) = 2

(***************************************************************************)
(* SpecRestart: the statements that change a table or its files, and       *)
(* restarts of the engine over the files left behind.                      *)
(***************************************************************************)
NextRestart ==
    \/ CreateTable
    \/ InsertRow
    \/ UpdateRows
    \/ DeleteRows
    \/ DropTable
    \/ Restart

SpecRestart == Init /\ [][NextRestart]_vars

(***************************************************************************)
(* Restart: indexes rebuilt from the loaded rows (SpecRestart).            *)
(***************************************************************************)
\* Index directories that differ from the one on disk: no blob at all, and
\* every blob replaced by one naming positions no table has.
OtherIndexFiles(xf) ==
    {<<>>, [f \in DOMAIN xf |-> {<<Num(1), <<MaxRowId + 1, 0>>>>}]}

\* Whether two runs of one statement gave the same result and left the same
\* tables and table blobs.
SameAnswer(one, other) ==
    /\ one.result = other.result
    /\ one.db.tables = other.db.tables
    /\ one.db.tableFiles = other.db.tableFiles

\* Whether two engines hold the same tables and table blobs, have written the
\* same blob for every index of their tables, and answer every statement of
\* the model alike.
Alike(one, other) ==
    /\ one.tables = other.tables
    /\ one.tableFiles = other.tableFiles
    /\ \A n \in DOMAIN one.tables :
           \A c \in DOMAIN one.tables[n].indexes :
               /\ IndexPath(n, c) \in DOMAIN one.indexFiles \cap DOMAIN other.indexFiles
               /\ one.indexFiles[IndexPath(n, c)] = other.indexFiles[IndexPath(n, c)]
    /\ \A sql \in AllStatements : SameAnswer(Catch(Try(one, sql)), Catch(Try(other, sql)))

\* Whether the engine started over the files has every table in step with
\* its loaded rows, and is like the engines started over the same table blobs
\* and other index blobs.
RebuiltFromRows(tf, xf, started) ==
    /\ AllInStep(started.tables)
    /\ \A n \in DOMAIN started.tables : started.tables[n].rows = LoadTable(tf, n).rows
    /\ \A other \in OtherIndexFiles(xf) : Alike(started, LoadExistingTables(tf, other))

\* C32: right after a restart every table has its next row identifier equal
\* to its row count and every bucket exactly the positions of the loaded rows
\* holding its value, and an engine started from the same table blobs with
\* other or no index blobs holds the same tables and answers every statement
\* with the same result and the same effect.
C32_IndexesRebuilt ==
    [][(result' = Failure("", "") /\ Restart)
           => RebuiltFromRows(tableFiles, indexFiles,
                              Db(tables', tableFiles', indexFiles'))]_vars

\* An engine has been started over the files of a table of two rows whose
\* index blob is on disk.
C32_Witness ==
    /\ result = Failure("", "")
    /\ "t" \in DOMAIN tables
    /\ Len(tables["t"].rows) = 2
    /\ tables["t"].nextRowId = 2
    /\ IndexPath("t", "id") \in DOMAIN indexFiles

(***************************************************************************)
(* DROP TABLE followed by CREATE TABLE (SpecRestart).                      *)
(***************************************************************************)
\* Whether the table has no row, no bucket in any index, and 0 as its next
\* row identifier.
Fresh(table) ==
    /\ table.rows = <<>>
    /\ table.nextRowId = 0
    /\ \A c \in DOMAIN table.indexes : table.indexes[c] = <<>>

\* Whether the INSERT, given that the new table's column checks accept its
\* values, succeeds on the engine and leaves its row as the only one.
InsertsFirstRow(db, sql, run) ==
    WellFormed(db.tables["t"], sql.query.values)
    => /\ run.result.success
       /\ Len(run.db.tables["t"].rows) = 1
       /\ run.db.tables["t"].nextRowId = 1

\* Whether the CREATE TABLE has succeeded with a fresh table that accepts
\* every valid row as its first one.
CreatedFresh(made) ==
    /\ made.result.success
    /\ "t" \in DOMAIN made.db.tables
    /\ Fresh(made.db.tables["t"])
    /\ \A sql \in InsertStatements : InsertsFirstRow(made.db, sql, Catch(Try(made.db, sql)))

\* C33: right after a successful DROP TABLE t, whatever rows and buckets the
\* dropped table had and whatever index blobs it left, a CREATE TABLE t
\* (with the old or with another column list) gives a table without rows,
\* with empty buckets and next row identifier 0, and that table accepts
\* every valid row as its first one, the key values the old table held
\* included.
C33_DropThenCreateFresh ==
    (result.type = "DROP_TABLE" /\ result.success)
    => \A sql \in CreateStatements({KeyedColumns, UniqueColumns}) : CreatedFresh(Run(sql))

\* A table has been dropped whose index blob, left on disk, names key 1 in
\* the bucket of position 0.
C33_Witness ==
    /\ result.type = "DROP_TABLE" /\ result.success
    /\ "t" \notin DOMAIN tables
    /\ "t" \notin DOMAIN tableFiles
    /\ IndexPath("t", "id") \in DOMAIN indexFiles
    /\ <<Num(1), <<0>>>> \in indexFiles[IndexPath("t", "id")]

(***************************************************************************)
(* SpecFrame: two tables, user with a unique column role_id and user_role  *)
(* with the key column id, and every statement kind against each.          *)
(***************************************************************************)
\* CREATE TABLE user (role_id INT UNIQUE, name TEXT NOT NULL)
RoleColumns ==
    <<Column("role_id", "INT", FALSE, TRUE, FALSE), Column("name", "TEXT", FALSE, FALSE, TRUE)>>

\* The column lists of the two tables; user_role has those of table t.
FrameColumns == [user |-> RoleColumns, user_role |-> KeyedColumns]

\* The key column of each table.
FrameKey == [user |-> "role_id", user_role |-> "id"]

\* Per table: CREATE TABLE, INSERTs of two keys and of a short list, an
\* UPDATE of the name by key, an UPDATE that assigns the key and then fails
\* on the type of the name, a DELETE by key, SELECTs with and without WHERE,
\* and DROP TABLE; and the join of the two tables on their keys.
FrameStatements ==
    UNION {{CreateTableSql(n, FrameColumns[n]),
            InsertSql(n, <<Num(1), Str("x")>>), InsertSql(n, <<Num(2), Str("x")>>),
            InsertSql(n, <<Num(1)>>),
            UpdateSql(n, <<Assign("name", Str("y"))>>, Where(FrameKey[n], "=", Num(1))),
            UpdateSql(n, <<Assign(FrameKey[n], Num(2)), Assign("name", Num(1))>>, NoWhere),
            DeleteSql(n, Where(FrameKey[n], "=", Num(1))),
            SelectSql(n, {"*"}, NoWhere, NoJoin),
            SelectSql(n, {"name"}, Where(FrameKey[n], "=", Num(1)), NoJoin),
            DropTableSql(n)} : n \in DOMAIN FrameColumns}
        \cup {SelectSql("user", {"*"}, NoWhere,
                        JoinOn("user_role", "user", "role_id", "user_role", "id"))}

FrameCreate == \E sql \in FrameStatements : sql.keyword = "CREATE TABLE" /\ Execute(sql)

FrameInsert == \E sql \in FrameStatements :
    sql.keyword = "INSERT INTO" /\ NextRowId(sql.query.tableName) < MaxJoinRows /\ Execute(sql)

FrameSelect == \E sql \in FrameStatements : sql.keyword = "SELECT" /\ Execute(sql)

FrameUpdate == \E sql \in FrameStatements : sql.keyword = "UPDATE" /\ Execute(sql)

FrameDelete == \E sql \in FrameStatements : sql.keyword = "DELETE FROM" /\ Execute(sql)

FrameDrop == \E sql \in FrameStatements : sql.keyword = "DROP TABLE" /\ Execute(sql)

NextFrame ==
    \/ FrameCreate
    \/ FrameInsert
    \/ FrameSelect
    \/ FrameUpdate
    \/ FrameDelete
    \/ FrameDrop

SpecFrame == Init /\ [][NextFrame]_vars

(***************************************************************************)
(* What a statement leaves alone (SpecFrame).                              *)
(***************************************************************************)
\* Whether the engine after the statement holds the table as it is now: the
\* Table object (schema, rows, buckets, next row identifier), the table blob
\* and the blob of each of its indexes.
Untouched(n, after) ==
    /\ n \in DOMAIN after.tables
    /\ after.tables[n] = tables[n]
    /\ (n \in DOMAIN tableFiles) = (n \in DOMAIN after.tableFiles)
    /\ n \in DOMAIN tableFiles => after.tableFiles[n] = tableFiles[n]
    /\ \A c \in DOMAIN tables[n].indexes :
           /\ IndexPath(n, c) \in DOMAIN after.indexFiles
           /\ after.indexFiles[IndexPath(n, c)] = indexFiles[IndexPath(n, c)]

\* Whether the statement is one the claim speaks of: an INSERT, UPDATE,
\* DELETE, DROP TABLE or SELECT without JOIN, or a statement that failed.
NamesOneTable(sql, run) ==
    \/ sql.keyword \in {"INSERT INTO", "UPDATE", "DELETE FROM", "DROP TABLE"}
    \/ sql.keyword = "SELECT" /\ sql.query.joinClause = NoJoin
    \/ ~run.result.success

\* Whether the run left every registered table other than the one the
\* statement names untouched, and, for a SELECT, every table.
FramedBy(sql, run) ==
    /\ NamesOneTable(sql, run)
           => \A n \in DOMAIN tables \ {sql.query.tableName} : Untouched(n, run.db)
    /\ sql.keyword = "SELECT" => \A n \in DOMAIN tables : Untouched(n, run.db)

\* C34: a statement naming one table (INSERT, UPDATE, DELETE, SELECT without
\* JOIN, DROP TABLE, or any statement that fails) leaves the schema, rows,
\* buckets and files of every other registered table as they were, and a
\* SELECT, with or without JOIN, leaves those of every table as they were.
C34_OtherTablesUntouched ==
    \A sql \in FrameStatements : FramedBy(sql, Run(sql))

(***************************************************************************)
(* Null in WHERE (SpecRoundTrip).                                          *)
(***************************************************************************)
\* WHERE id op literal for the five operators of the claim and non-null
\* literals: 0, 1, a numeric string and a boolean.
NullProbes ==
    {Where("id", op, literal) :
        op \in {"=", ">", "<", ">=", "<="},
        literal \in {Num(0), Num(1), Str("1"), Bool(FALSE)}}

\* Whether no returned row holds null in the column the WHERE clause tests.
NoNullReturned(where, res) ==
    /\ res.success
    /\ \A i \in 1..Len(res.rows) : Get(res.rows[i], where.column) # Null

\* C35: a row whose column holds null does not satisfy col op literal for a
\* non-null literal and op among =, >, <, >=, <=: no SELECT * with such a
\* WHERE clause returns a row holding null in that column.
C35_NullMatchesNothing ==
    "t" \in DOMAIN tables =>
        \A where \in NullProbes :
            NoNullReturned(where, Run(SelectSql("t", {"*"}, where, NoJoin)).result)

(***************************************************************************)
(* SQLParser on statement texts.  A text is a sequence of pieces: each     *)
(* piece is one of the characters ' " , . = ! > < or a word, a run of      *)
(* other characters.  Texts are written without white space around their   *)
(* pieces, so that trim() has nothing to remove.                           *)
(***************************************************************************)
\* The string a text stands for.
RECURSIVE Flat(_)
Flat(text) == IF text = <<>> THEN "" ELSE Head(text) \o Flat(Tail(text))

\* text.includes(part)
Includes(text, part) ==
    \E i \in 1..(Len(text) - Len(part) + 1) : SubSeq(text, i, i + Len(part) - 1) = part

\* text.split(separator): the texts between the occurrences of the
\* separator, found from left to right.
RECURSIVE Split(_, _)
Split(text, separator) ==
    IF ~Includes(text, separator) THEN <<text>>
    ELSE LET i == CHOOSE i \in 1..Len(text) :
                      /\ SubSeq(text, i, i + Len(separator) - 1) = separator
                      /\ \A h \in 1..(i - 1) :
                             SubSeq(text, h, h + Len(separator) - 1) # separator
         IN  <<SubSeq(text, 1, i - 1)>>
                 \o Split(SubSeq(text, i + Len(separator), Len(text)), separator)

\* toLowerCase() and toUpperCase() on the words of the model.
ToLowerCase(word) ==
    CASE word \in {"TRUE", "True"} -> "true"
      [] word \in {"FALSE"} -> "false"
      [] word \in {"NULL", "Null"} -> "null"
      [] OTHER -> word

ToUpperCase(word) ==
    CASE word = "int" -> "INT"
      [] word = "text" -> "TEXT"
      [] word = "varchar" -> "VARCHAR"
      [] word = "primary" -> "PRIMARY"
      [] word = "key" -> "KEY"
      [] word = "Unique" -> "UNIQUE"
      [] word = "not" -> "NOT"
      [] word = "null" -> "NULL"
      [] word = "unique_code" -> "UNIQUE_CODE"
      [] word = "checked" -> "CHECKED"
      [] word = "id" -> "ID"
      [] word = "name" -> "NAME"
      [] OTHER -> word

\* parseValue(value) of a string.
ParseValue(text) ==
    IF /\ text # <<>>
       /\ \/ Head(text) = "'" /\ text[Len(text)] = "'"
          \/ Head(text) = "\"" /\ text[Len(text)] = "\""
    THEN Str(Flat(SubSeq(text, 2, Len(text) - 1)))
    ELSE IF ToLowerCase(Flat(text)) = "true" THEN Bool(TRUE)
    ELSE IF ToLowerCase(Flat(text)) = "false" THEN Bool(FALSE)
    ELSE IF ToLowerCase(Flat(text)) = "null" THEN Null
    ELSE IF StringToNumber(Flat(text)) # NaN THEN StringToNumber(Flat(text))
    ELSE Str(Flat(text))

\* splitByComma(str) from the point the loop has reached: the part being
\* collected and the quote character that is open ("" outside quotes).  An
\* empty last part is not pushed.
RECURSIVE SplitByComma(_, _, _)
SplitByComma(text, current, quoteChar) ==
    IF text = <<>> THEN (IF current = <<>> THEN <<>> ELSE <<current>>)
    ELSE LET char == Head(text)
             quote == IF char \in {"'", "\""} /\ quoteChar = "" THEN char
                      ELSE IF char = quoteChar THEN ""
                      ELSE quoteChar
         IN  IF char = "," /\ quote = ""
             THEN <<current>> \o SplitByComma(Tail(text), <<>>, quote)
             ELSE SplitByComma(Tail(text), Append(current, char), quote)

\* parseValues(valuesPart)
ParseValues(text) ==
    [i \in DOMAIN SplitByComma(text, <<>>, "") |-> ParseValue(SplitByComma(text, <<>>, "")[i])]

\* The operators of parseWhere in the order it scans them.
WhereOperators == <<<<">", "=">>, <<"<", "=">>, <<"!", "=">>, <<"=">>, <<">">>, <<"<">>>>

\* parseWhere(wherePart): the clause is split at the first operator of the
\* scan order that occurs in it, the first two parts are the column and the
\* value; a text without any operator is an error.
ParseWhere(text) ==
    IF \A j \in 1..Len(WhereOperators) : ~Includes(text, WhereOperators[j])
    THEN [thrown |-> TRUE, where |-> NoWhere]
    ELSE LET j == CHOOSE j \in 1..Len(WhereOperators) :
                      /\ Includes(text, WhereOperators[j])
                      /\ \A h \in 1..(j - 1) : ~Includes(text, WhereOperators[h])
             parts == Split(text, WhereOperators[j])
             col == Split(parts[1], <<".">>)
         IN  [thrown |-> FALSE,
              where |-> Where(Flat(col[Len(col)]), Flat(WhereOperators[j]),
                              ParseValue(parts[2]))]

\* The SET part of parseUpdate: split at every comma, each pair split at
\* every '=' with its first two parts taken as column and value; a pair
\* without '=' leaves the value undefined, and parseValue(undefined) raises.
ParseSet(text) ==
    LET pairs == Split(text, <<",">>)
    IN  IF \E i \in 1..Len(pairs) : Len(Split(pairs[i], <<"=">>)) < 2
        THEN [thrown |-> TRUE, setClause |-> <<>>]
        ELSE [thrown |-> FALSE,
              setClause |-> [i \in 1..Len(pairs) |->
                                Assign(Flat(Split(pairs[i], <<"=">>)[1]),
                                       ParseValue(Split(pairs[i], <<"=">>)[2]))]]


\* The column list of CREATE TABLE after splitByComma: a sequence of
\* entries, each the sequence of words split(/\s+/) makes of it.
\* word.startsWith(prefix) on upper-case words of the model.
StartsWith(word, prefix) ==
    <<word, prefix>> \in {<<"UNIQUE", "UNIQUE">>, <<"UNIQUE_CODE", "UNIQUE">>,
                          <<"CHECK", "CHECK">>, <<"CHECKED", "CHECK">>, <<"KEY", "KEY">>}

\* Whether the entry is skipped as a table-level constraint: its upper-case
\* text starts with UNIQUE, FOREIGN KEY or CHECK.
IsSkipped(tokens) ==
    \/ StartsWith(ToUpperCase(tokens[1]), "UNIQUE")
    \/ StartsWith(ToUpperCase(tokens[1]), "CHECK")
    \/ /\ Len(tokens) >= 2
       /\ ToUpperCase(tokens[1]) = "FOREIGN"
       /\ StartsWith(ToUpperCase(tokens[2]), "KEY")

\* Whether the entry's upper-case text starts with PRIMARY KEY.
IsTableKey(tokens) ==
    /\ Len(tokens) >= 2
    /\ ToUpperCase(tokens[1]) = "PRIMARY"
    /\ StartsWith(ToUpperCase(tokens[2]), "KEY")

\* The column name /PRIMARY KEY\s*\((\w+)\)/ captures, "" without a match.
KeyColumn(tokens) ==
    IF Len(tokens) < 3 THEN ""
    ELSE CASE tokens[3] = "(id)" -> "id"
           [] tokens[3] = "(nope)" -> "nope"
           [] OTHER -> ""

\* A column definition: name, upper-cased type, and the flags by presence
\* of the modifier in the upper-cased rest.  An absent flag is FALSE.
ParseColumn(tokens) ==
    LET modifiers == [i \in 1..(Len(tokens) - 2) |-> ToUpperCase(tokens[i + 2])]
    IN  Column(tokens[1], ToUpperCase(tokens[2]),
               Includes(modifiers, <<"PRIMARY", "KEY">>),
               Includes(modifiers, <<"UNIQUE">>),
               Includes(modifiers, <<"NOT", "NULL">>))

\* The loop of parseCreateTable over the entries, with the columns made so
\* far and the primary key named so far, and the step after the loop that
\* applies the primary key.
RECURSIVE ParseColumns(_, _, _)
ParseColumns(entries, columns, tablePrimaryKey) ==
    IF entries = <<>>
    THEN IF tablePrimaryKey = "" THEN [thrown |-> FALSE, columns |-> columns]
         ELSE IF \A i \in 1..Len(columns) : columns[i].name # tablePrimaryKey
         THEN [thrown |-> TRUE, columns |-> <<>>]
         ELSE [thrown |-> FALSE,
               columns |-> [i \in 1..Len(columns) |->
                   IF /\ columns[i].name = tablePrimaryKey
                      /\ \A h \in 1..(i - 1) : columns[h].name # tablePrimaryKey
                   THEN [columns[i] EXCEPT !.primaryKey = TRUE]
                   ELSE columns[i]]]
    ELSE IF IsSkipped(Head(entries))
    THEN ParseColumns(Tail(entries), columns, tablePrimaryKey)
    ELSE IF IsTableKey(Head(entries))
    THEN IF KeyColumn(Head(entries)) = "" THEN [thrown |-> TRUE, columns |-> <<>>]
         ELSE ParseColumns(Tail(entries), columns, KeyColumn(Head(entries)))
    ELSE IF Len(Head(entries)) < 2 THEN [thrown |-> TRUE, columns |-> <<>>]
    ELSE ParseColumns(Tail(entries), Append(columns, ParseColumn(Head(entries))),
                      IF ParseColumn(Head(entries)).primaryKey
                      THEN Head(entries)[1] ELSE tablePrimaryKey)

\* A statement text whose parse raises after the statement's pattern has
\* matched.
Raising(keyword) == Sql(keyword, FALSE, Query("", "", <<>>, <<>>, {}, NoWhere, NoJoin, <<>>))

\* CREATE TABLE <tableName> (<entries>)
CreateTableText(tableName, entries) ==
    IF ParseColumns(entries, <<>>, "").thrown THEN Raising("CREATE TABLE")
    ELSE CreateTableSql(tableName, ParseColumns(entries, <<>>, "").columns)

\* INSERT INTO <tableName> VALUES (<values>)
InsertText(tableName, values) == InsertSql(tableName, ParseValues(values))

\* SELECT * FROM <tableName> WHERE <where>
SelectText(tableName, where) ==
    IF ParseWhere(where).thrown THEN Raising("SELECT")
    ELSE SelectSql(tableName, {"*"}, ParseWhere(where).where, NoJoin)

\* UPDATE <tableName> SET <set> WHERE <where>
UpdateText(tableName, set, where) ==
    IF ParseSet(set).thrown \/ ParseWhere(where).thrown THEN Raising("UPDATE")
    ELSE UpdateSql(tableName, ParseSet(set).setClause, ParseWhere(where).where)


(***************************************************************************)
(* SpecParse: statements given as texts, parsed and executed against       *)
(* table t.                                                                *)
(***************************************************************************)
\* Column lists: the one of table t in upper and in lower case; a column
\* whose name begins with a constraint keyword; a type keyword outside the
\* four types; table-level UNIQUE, CHECK and PRIMARY KEY entries; a
\* table-level PRIMARY KEY naming no column; an entry of one word.
ColumnListTexts ==
    {<<<<"id", "INT", "PRIMARY", "KEY">>, <<"name", "TEXT", "NOT", "NULL">>>>,
     <<<<"id", "int", "primary", "key">>, <<"name", "text", "not", "null">>>>,
     <<<<"id", "INT", "PRIMARY", "KEY">>, <<"unique_code", "TEXT">>>>,
     <<<<"id", "INT", "PRIMARY", "KEY">>, <<"name", "varchar">>>>,
     <<<<"id", "INT">>, <<"name", "TEXT", "Unique">>, <<"UNIQUE", "(name)">>,
       <<"CHECK", "(id>0)">>, <<"PRIMARY", "KEY", "(id)">>>>,
     <<<<"id", "INT">>, <<"PRIMARY", "KEY", "(nope)">>>>,
     <<<<"id">>>>}

\* Literal texts with the value the coercion rule gives each: quoted text
\* (single and double quotes, with a comma, with an operator character),
\* booleans and null in either case, a number, and a bare word.
Literals ==
    {<<<<"'", "x", "'">>, Str("x")>>,
     <<<<"\"", "x", "\"">>, Str("x")>>,
     <<<<"'", "a", ",", "b", "'">>, Str("a,b")>>,
     <<<<"'", "a", "=", "b", "'">>, Str("a=b")>>,
     <<<<"'", "a", ">", "=", "b", "'">>, Str("a>=b")>>,
     <<<<"TRUE">>, Bool(TRUE)>>,
     <<<<"false">>, Bool(FALSE)>>,
     <<<<"Null">>, Null>>,
     <<<<"1">>, Num(1)>>,
     <<<<"x">>, Str("x")>>}

\* VALUES (<key>, <literal>) for keys 1 and 2 and a quoted literal without
\* and with a comma, and VALUES (null, 'x').
ValueTexts ==
    {<<key, ",">> \o literal : key \in {"1", "2"},
                               literal \in {<<"'", "x", "'">>, <<"'", "a", ",", "b", "'">>}}
        \cup {<<"null", ",", "'", "x", "'">>}

\* WHERE clauses: each operator on the key, a qualified column, a quoted
\* literal on the name without and with an operator character, and a text
\* without operator.
WhereTexts ==
    {<<"id">> \o WhereOperators[j] \o <<"1">> : j \in 1..Len(WhereOperators)}
        \cup {<<"t", ".", "id", "=", "1">>, <<"id">>,
              <<"name", "=", "'", "x", "'">>,
              <<"name", "=", "'", "a", "=", "b", "'">>}

\* SET clauses: the name from a quoted literal, plain, with a comma and
\* with an operator character; the key; and two assignments.
SetTexts ==
    {<<"name", "=", "'", "y", "'">>,
     <<"name", "=", "'", "a", ",", "b", "'">>,
     <<"name", "=", "'", "a", "=", "b", "'">>,
     <<"id", "=", "2">>,
     <<"id", "=", "2", ",", "name", "=", "'", "y", "'">>}

\* The WHERE clauses of the UPDATE statements: by key and by name.
UpdateWhereTexts == {<<"id", "=", "1">>, <<"name", "=", "'", "x", "'">>}

TextCreate == \E sql \in {CreateTableText("t", entries) : entries \in ColumnListTexts} :
    sql.keyword = "CREATE TABLE" /\ Execute(sql)

TextInsert == \E values \in ValueTexts :
    NextRowId("t") < MaxRowId /\ Execute(InsertText("t", values))

TextSelect == \E sql \in {SelectText("t", where) : where \in WhereTexts} :
    sql.keyword = "SELECT" /\ Execute(sql)

TextUpdate == \E set \in SetTexts, where \in UpdateWhereTexts :
    BucketsBelow("t", MaxBucket) /\ Execute(UpdateText("t", set, where))

NextParse ==
    \/ TextCreate
    \/ TextInsert
    \/ TextSelect
    \/ TextUpdate
    \/ DropTable

SpecParse == Init /\ [][NextParse]_vars


(***************************************************************************)
(* CREATE TABLE column lists (SpecParse).                                  *)
(***************************************************************************)
\* The declared types of the data model.
DataTypes == {"INT", "FLOAT", "TEXT", "BOOLEAN"}

\* C36: every column of every registered table has a declared type among
\* INT, FLOAT, TEXT and BOOLEAN; a CREATE TABLE with another type keyword
\* registers no table with that column.
C36_TypesDeclared ==
    \A n \in DOMAIN tables :
        \A i \in 1..Len(tables[n].schema.columns) :
            tables[n].schema.columns[i].type \in DataTypes

\* Whether the entry is a table-level UNIQUE, FOREIGN KEY or CHECK
\* constraint: it begins with the keyword, as a word of its own.
IsConstraintEntry(tokens) ==
    \/ ToUpperCase(tokens[1]) \in {"UNIQUE", "CHECK"}
    \/ Len(tokens) >= 2 /\ ToUpperCase(tokens[1]) = "FOREIGN" /\ ToUpperCase(tokens[2]) = "KEY"

\* Whether the entry has the form name type [modifiers].
IsColumnEntry(tokens) ==
    /\ ~IsConstraintEntry(tokens)
    /\ Len(tokens) >= 2
    /\ ToUpperCase(tokens[1]) # "PRIMARY"

\* The name and the flags the entry's column is to have: a flag is set
\* exactly when its modifier is among the words after the type, in any case.
NamedAndFlagged(tokens) ==
    [name |-> tokens[1],
     primaryKey |-> \E i \in 3..(Len(tokens) - 1) :
                        ToUpperCase(tokens[i]) = "PRIMARY" /\ ToUpperCase(tokens[i + 1]) = "KEY",
     unique |-> \E i \in 3..Len(tokens) : ToUpperCase(tokens[i]) = "UNIQUE",
     notNull |-> \E i \in 3..(Len(tokens) - 1) :
                     ToUpperCase(tokens[i]) = "NOT" /\ ToUpperCase(tokens[i + 1]) = "NULL"]

\* The names and flags of a schema's columns, in order.
NamesAndFlags(columns) ==
    [i \in 1..Len(columns) |->
        [name |-> columns[i].name, primaryKey |-> columns[i].primaryKey,
         unique |-> columns[i].unique, notNull |-> columns[i].notNull]]

\* Whether the CREATE TABLE has registered the table with one column per
\* column entry of the list, in list order, flagged by its modifiers.
ColumnPerEntry(entries, run) ==
    /\ run.result.success
    /\ NamesAndFlags(run.db.tables["t"].schema.columns) =
           [i \in 1..Len(SelectSeq(entries, IsColumnEntry)) |->
               NamedAndFlagged(SelectSeq(entries, IsColumnEntry)[i])]

\* C37: for a column list made of column definitions and table-level
\* UNIQUE / FOREIGN KEY / CHECK constraints, CREATE TABLE yields one schema
\* column per column definition, in list order, with primaryKey, unique and
\* notNull set exactly when the modifier is among the words after the type;
\* only the constraint entries yield no column.
C37_ColumnPerEntry ==
    "t" \notin DOMAIN tables =>
        \A entries \in ColumnListTexts :
            (\A i \in 1..Len(entries) :
                IsConstraintEntry(entries[i]) \/ IsColumnEntry(entries[i]))
            => ColumnPerEntry(entries, Run(CreateTableText("t", entries)))

(***************************************************************************)
(* Literals and WHERE clauses (SpecParse).                                 *)
(***************************************************************************)
\* Whether the literal, written as an INSERT value, as the right-hand side
\* of a SET assignment and as the right-hand side of a WHERE clause, is
\* parsed to the value of the coercion rule in all three places.
CoercedAlike(literal) ==
    /\ InsertText("t", <<"1", ",">> \o literal[1]).query.values = <<Num(1), literal[2]>>
    /\ UpdateText("t", <<"name", "=">> \o literal[1], <<"id", "=", "1">>).query.setClause
           = <<Assign("name", literal[2])>>
    /\ SelectText("t", <<"name", "=">> \o literal[1]).query.whereClause
           = Where("name", "=", literal[2])

\* C38: a literal text yields the same value as an INSERT value, as an
\* UPDATE right-hand side and as a WHERE right-hand side: quoted text the
\* string without its quotes (with a comma or an operator character
\* inside, too), true and false booleans, null null, a numeric literal a
\* number, anything else the raw string.
C38_LiteralsAlike ==
    "t" \in DOMAIN tables => \A literal \in Literals : CoercedAlike(literal)

\* Whether the clause col op literal is parsed to the column without its
\* qualifier, that operator and the coerced literal.
ParsedAsWritten(column, operator, literal) ==
    ParseWhere(column \o operator \o literal[1])
        = [thrown |-> FALSE, where |-> Where("id", Flat(operator), literal[2])]

\* C39: for every clause col op literal with op among >=, <=, !=, =, > and
\* <, parseWhere yields the column without its table qualifier, that
\* operator and the coerced literal; a clause without any of the operators
\* is a parse failure.
C39_WhereAsWritten ==
    "t" \in DOMAIN tables =>
        /\ \A j \in 1..Len(WhereOperators) :
               \A column \in {<<"id">>, <<"t", ".", "id">>} :
                   \A literal \in Literals :
                       ParsedAsWritten(column, WhereOperators[j], literal)
        /\ \A text \in {<<"id">>, <<"id", "1">>} : ParseWhere(text).thrown

=============================================================================
